---- MODULE Spec2Model ----
(***************************************************************************)
(* Model of the two dashboards of src/src/pages/user-dashboard.tsx:        *)
(* UserDashboard (lines 12-793) and Dashboard (lines 794-2367).  One page  *)
(* is mounted per behaviour.  Asynchronous functions are modelled as       *)
(* calls with a program counter; timers (setTimeout) are pending until     *)
(* they fire or are cleared.  A call reads the component state it closed   *)
(* over when it was invoked (user, dateRange, loadingTimeout), as a        *)
(* JavaScript closure over one render does.                                *)
(***************************************************************************)
EXTENDS Integers, Sequences, FiniteSets, TLC

\* ---------------------------------------------------------------- bounds
MaxCalls == 2      \* invocations whose continuation is followed at the same time
MaxDepth == 1      \* nesting of fetchData inside fetchTeamsBasedOnRole: the teams query of
                   \* the fetchData at this depth is not answered with rows
MaxExpanded == 1   \* rows expanded at the same time
MaxApplyTimers == 1  \* delayed applyFilters that a click on a card can leave pending

\* ------------------------------------------------------ program constants
BaseDelay == 1000
ProdRetries == 3
DevRetries == 1
DayEndMs == 86399999
DayEndSec == 86399000
Today == 30
UserWindow == 30
DashWindow == 7
NowMs == 43200000

\* ------------------------------------------------------------- the store
NoTeam == ""
NoBlocker == ""

Statuses == {"to-do", "in-progress", "completed", "blocked", "reopen"}
Roles == {"user", "manager", "admin"}

\* useAuth().user when no session is resolved (null)
NoUser == [email |-> "", role |-> "none"]

\* the acting user is one of these (useAuth)
Users ==
  { [email |-> "alice@x.io", role |-> "user"],
    [email |-> "m1@x.io", role |-> "manager"],
    [email |-> "root@x.io", role |-> "admin"] }

\* rows of aditi_teams
TeamRows ==
  << [id |-> "T1", manager_email |-> "m1@x.io"],
     [id |-> "T2", manager_email |-> "m9@x.io"] >>

\* rows of aditi_daily_updates; created_at is <<day, millisecond of the day>> (UTC)
UpdateRows ==
  << [id |-> 1, employee_email |-> "alice@x.io", team_id |-> "T1", created_at |-> <<0, 0>>,
      status |-> "to-do", blocker_type |-> NoBlocker,
      blocker_description |-> "", expected_resolution_date |-> ""],
     [id |-> 2, employee_email |-> "alice@x.io", team_id |-> "T1", created_at |-> <<30, 86399999>>,
      status |-> "completed", blocker_type |-> NoBlocker,
      blocker_description |-> "", expected_resolution_date |-> ""],
     [id |-> 3, employee_email |-> "alice@x.io", team_id |-> "T2", created_at |-> <<30, 86399000>>,
      status |-> "in-progress", blocker_type |-> "Risk",
      blocker_description |-> "r3", expected_resolution_date |-> "2025-08-01"],
     [id |-> 4, employee_email |-> "alice@x.io", team_id |-> "T2", created_at |-> <<24, 1000>>,
      status |-> "blocked", blocker_type |-> "Blocker",
      blocker_description |-> "b4", expected_resolution_date |-> ""],
     [id |-> 5, employee_email |-> "bob@x.io", team_id |-> "T2", created_at |-> <<22, 86399999>>,
      status |-> "reopen", blocker_type |-> NoBlocker,
      blocker_description |-> "", expected_resolution_date |-> ""],
     [id |-> 6, employee_email |-> "m1@x.io", team_id |-> "T1", created_at |-> <<23, 0>>,
      status |-> "completed", blocker_type |-> NoBlocker,
      blocker_description |-> "stale6", expected_resolution_date |-> "2025-08-02"],
     [id |-> 7, employee_email |-> "root@x.io", team_id |-> "T2", created_at |-> <<26, 5000>>,
      status |-> "completed", blocker_type |-> "Issue",
      blocker_description |-> "", expected_resolution_date |-> "2025-08-03"],
     [id |-> 8, employee_email |-> "bob@x.io", team_id |-> "T1", created_at |-> <<31, 0>>,
      status |-> "in-progress", blocker_type |-> NoBlocker,
      blocker_description |-> "", expected_resolution_date |-> ""],
     [id |-> 9, employee_email |-> "alice@x.io", team_id |-> "T1", created_at |-> <<25, 0>>,
      status |-> "reopen", blocker_type |-> NoBlocker,
      blocker_description |-> "stale9", expected_resolution_date |-> ""] >>

UpdateIds == 1..Len(UpdateRows)

Upd(i) == UpdateRows[i]

\* timestamps compare as instants
TsLE(a, b) == a[1] < b[1] \/ (a[1] = b[1] /\ a[2] <= b[2])

\* the values the date inputs can be set to
DayChoices == {24}

RECURSIVE SelectIds(_, _)
\* the ids of the rows r of UpdateRows, in table order from row i on, with P[r.id]
SelectIds(i, P) ==
  IF i > Len(UpdateRows) THEN << >>
  ELSE IF P[i] THEN << i >> \o SelectIds(i + 1, P) ELSE SelectIds(i + 1, P)

\* a query on aditi_daily_updates: .eq('employee_email'), .gte/.lte('created_at'), .eq('team_id')
RunQuery(q) ==
  SelectIds(1, [i \in UpdateIds |->
      /\ (q.email # "" => Upd(i).employee_email = q.email)
      /\ TsLE(q.gte, Upd(i).created_at)
      /\ TsLE(Upd(i).created_at, q.lte)
      /\ (q.team # NoTeam => Upd(i).team_id = q.team)])

RECURSIVE InsertDesc(_, _)
InsertDesc(s, i) ==
  IF s = << >> THEN << i >>
  ELSE IF TsLE(Upd(Head(s)).created_at, Upd(i).created_at) THEN << i >> \o s
       ELSE << Head(s) >> \o InsertDesc(Tail(s), i)

RECURSIVE OrderDesc(_)
\* .order('created_at', { ascending: false })
OrderDesc(s) == IF s = << >> THEN << >> ELSE InsertDesc(OrderDesc(Tail(s)), Head(s))

RECURSIVE SelectTeams(_, _)
SelectTeams(i, email) ==
  IF i > Len(TeamRows) THEN << >>
  ELSE IF email = "" \/ TeamRows[i].manager_email = email
       THEN << TeamRows[i].id >> \o SelectTeams(i + 1, email)
       ELSE SelectTeams(i + 1, email)

Range(s) == { s[i] : i \in 1..Len(s) }

\* ------------------------------------------------------------------ state
VARIABLES
  page,            \* which component is mounted: "user-dashboard" or "dashboard"
  user,            \* useAuth().user
  production,      \* process.env.NODE_ENV === 'production'
  mounted,         \* the mount effects have run
  isLoading, loadingFailed, dataLoaded, isRefreshing,
  userUpdates, filteredUpdates,      \* UserDashboard: fetched and displayed updates
  historicalData, filteredData,      \* Dashboard: fetched and displayed updates
  stats,
  dateRange, activeFilter, activeTab, selectedTeam, teams,
  loadingTimeout,  \* the state variable holding a timer handle
  expandedRows, editingUpdate, showEditModal,
  calls,           \* the invocations of the asynchronous functions
  timers,          \* pending setTimeout callbacks
  toasts,          \* notifications surfaced so far: <<kind, call>>
  redirected,      \* router.replace('/user-dashboard') was called
  unfollowed,      \* an effect of Dashboard made an invocation whose continuation is not
                   \* followed, because MaxCalls invocations were being followed
  localStorage,    \* window.localStorage: a set of [key, value]; a key is the sequence of
                   \* the segments that '_' separates
  interval,        \* the setInterval of the periodic refresh of Dashboard: the selectedTeam
                   \* and dateRange its callback closed over, and whether refreshInterval
                   \* has elapsed since lastRefreshTime
  visibilityState, \* document.visibilityState
  sessionRecoveryAttempted, recoveryInProgress   \* Dashboard: the session recovery of lines 880-902

envVars == << page, user, production >>
flagVars == << isLoading, loadingFailed, dataLoaded, isRefreshing >>
dataVars == << userUpdates, filteredUpdates, historicalData, filteredData, stats >>
filterVars == << dateRange, activeFilter, activeTab, selectedTeam, teams >>
viewVars == << expandedRows, editingUpdate, showEditModal >>
asyncVars == << loadingTimeout, calls, timers, toasts, redirected, unfollowed >>
ambientVars == << visibilityState, sessionRecoveryAttempted, recoveryInProgress >>
storeVars == << localStorage, interval, ambientVars >>
vars == << envVars, mounted, flagVars, dataVars, filterVars, viewVars, asyncVars, storeVars >>

Pages == {"user-dashboard", "dashboard"}
CallIds == 1..MaxCalls
NoTimer == << 0, 0 >>

\* the state a function closes over in the render that created it
NoRender == [updates |-> << >>, filter |-> "", team |-> NoTeam, lt |-> NoTimer,
             range |-> [start |-> 0, end |-> 0], loading |-> FALSE]

NoInterval == [on |-> FALSE, team |-> NoTeam, range |-> NoRender.range, due |-> FALSE]

NoCall == [fn |-> "none", pc |-> "idle", depth |-> 0, team |-> NoTeam, cl |-> NoRender,
           retryCount |-> 0, attempts |-> 0, by |-> "none", outcome |-> "none", delay |-> 0]

\* pending timers: the loading timeout armed by an invocation, and a delayed applyFilters
LoadingTimer(id) == [kind |-> "loading", id |-> id, cl |-> NoRender]
ApplyTimer(updates, filter, team, range) ==
  [kind |-> "apply", id |-> NoTimer,
   cl |-> [NoRender EXCEPT !.updates = updates, !.filter = filter, !.team = team, !.range = range]]

\* the call ids that can name a new invocation: not in use, and no timer handle of it is
\* pending or still held by the state or by a closure
FreeSlots(cs, tm, lt) ==
  { c \in CallIds : /\ cs[c].fn = "none"
                    /\ \A t \in tm : t.id[1] # c
                    /\ lt[1] # c
                    /\ \A d \in CallIds : cs[d].cl.lt[1] # c }

\* the smallest free call id (0 when there is none)
FreeSlot(cs, tm, lt) ==
  IF FreeSlots(cs, tm, lt) = {} THEN 0
  ELSE CHOOSE c \in FreeSlots(cs, tm, lt) : \A d \in FreeSlots(cs, tm, lt) : c <= d

FreeCall(cs) == FreeSlot(cs, timers, loadingTimeout)

\* ---------------------------------------------------- UserDashboard: pure
\* calculateStats of UserDashboard
UserCalculateStats(updates) ==
  [ totalUpdates |-> Len(updates),
    completedTasks |-> Len(SelectSeq(updates, LAMBDA i : Upd(i).status = "completed")),
    inProgressTasks |-> Len(SelectSeq(updates, LAMBDA i : Upd(i).status = "in-progress")),
    blockedTasks |-> Len(SelectSeq(updates, LAMBDA i : Upd(i).status = "blocked")) ]

\* a switch whose 'blocked' case tests blocker_type instead of status
UserTabFilterBlockedByBlocker(updates, filter) ==
  IF filter \in {"completed", "in-progress"}
  THEN SelectSeq(updates, LAMBDA i : Upd(i).status = filter)
  ELSE IF filter = "blocked" THEN SelectSeq(updates, LAMBDA i : Upd(i).blocker_type # NoBlocker)
       ELSE updates

\* the switch of applyFilters of UserDashboard
UserTabFilter(updates, filter) ==
  IF filter \in {"completed", "in-progress", "blocked"}
  THEN SelectSeq(updates, LAMBDA i : Upd(i).status = filter)
  ELSE updates

\* applyFilters of UserDashboard, run in a render whose userUpdates and
\* activeFilter are `updates` and `filter`: the new <<filteredUpdates, stats>>
UserApplyFilters(updates, filter, oldStats) ==
  IF Len(updates) = 0 THEN << << >>, oldStats >>
  ELSE << UserTabFilter(updates, filter), UserCalculateStats(updates) >>

UserMaxRetries == IF production THEN ProdRetries ELSE DevRetries

\* the query of attemptFetch without .eq('employee_email', user.email)
UserQueryAnyOwner(range) ==
  [ email |-> "", gte |-> << range.start, 0 >>, lte |-> << range.end, DayEndMs >>,
    team |-> NoTeam ]

\* the query built by attemptFetch in a render with this user and dateRange
UserQuery(range) ==
  [ email |-> user.email, gte |-> << range.start, 0 >>, lte |-> << range.end, DayEndMs >>,
    team |-> NoTeam ]

\* isTaskEditable that refuses the completed status only
isTaskEditableUnlessCompleted(status) ==
  IF user.role = "admin" \/ user.role = "manager" THEN TRUE
  ELSE status # "completed"

\* isTaskEditable (lines 288-297)
isTaskEditable(status) ==
  IF user.role = "admin" \/ user.role = "manager" THEN TRUE
  ELSE status = "to-do" \/ status = "in-progress"

\* ------------------------------------------------- UserDashboard: actions
\* the render of UserDashboard with these values of the state it reads
UserRender(updates, filter, lt, range) ==
  [NoRender EXCEPT !.updates = updates, !.filter = filter, !.lt = lt, !.range = range]

\* fetchUserUpdates up to its first await (lines 144-179), in a call c made from render cl
UserFetchStart(c, cl, by, cs, tm) ==
  [ calls |-> [cs EXCEPT ![c] = [NoCall EXCEPT !.fn = "fetchUserUpdates", !.pc = "query",
                                  !.cl = cl, !.attempts = 1, !.by = by]],
    timers |-> (tm \ {LoadingTimer(cl.lt)}) \cup {LoadingTimer(<< c, 1 >>)},
    loadingTimeout |-> << c, 1 >> ]

\* the mount effects of UserDashboard (lines 37-47)
UserMount ==
  /\ page = "user-dashboard" /\ ~mounted
  /\ mounted' = TRUE
  /\ LET st == UserFetchStart(1, UserRender(userUpdates, activeFilter, loadingTimeout, dateRange),
                              "effect", calls, timers)
     IN /\ calls' = st.calls /\ timers' = st.timers /\ loadingTimeout' = st.loadingTimeout
  /\ isLoading' = TRUE
  /\ UNCHANGED << envVars, storeVars, loadingFailed, dataLoaded, isRefreshing, dataVars, filterVars,
                  viewVars, toasts, redirected, unfollowed >>

\* the finally block of fetchUserUpdates (lines 225-231) for a call with closure cl
UserFinally(c, cl, tm) ==
  [ timers |-> IF cl.lt # NoTimer THEN tm \ {LoadingTimer(cl.lt)} ELSE tm,
    loadingTimeout |-> IF cl.lt # NoTimer THEN NoTimer ELSE loadingTimeout ]

\* refreshData after its await (lines 113-114, 1397-1398): the fetch has returned without
\* throwing, and the success notification is shown
RefreshNotice == << "refreshed", 0 >>

RefreshReturns(by, ts) == IF by = "refresh" THEN ts \cup {RefreshNotice} ELSE ts

\* a completion with a sequencing guard: the response is dropped when the date range of the
\* fetch is no longer the current one
UserQuerySucceedsGuarded(c) ==
  /\ page = "user-dashboard" /\ calls[c].fn = "fetchUserUpdates" /\ calls[c].pc = "query"
  /\ LET cl == calls[c].cl
         data == IF cl.range = dateRange THEN OrderDesc(RunQuery(UserQuery(cl.range)))
                 ELSE userUpdates
         fin == UserFinally(c, cl, timers)
         eff == UserApplyFilters(data, activeFilter, stats)
     IN /\ userUpdates' = data
        /\ dataLoaded' = TRUE
        /\ filteredUpdates' = eff[1]
        /\ stats' = eff[2]
        /\ timers' = fin.timers \cup {ApplyTimer(cl.updates, cl.filter, NoTeam, NoRender.range)}
        /\ loadingTimeout' = fin.loadingTimeout
        /\ calls' = [calls EXCEPT ![c].pc = "done", ![c].outcome = "success", ![c].cl = NoRender]
  /\ isLoading' = FALSE
  /\ isRefreshing' = IF calls[c].by = "refresh" THEN FALSE ELSE isRefreshing
  /\ toasts' = RefreshReturns(calls[c].by, toasts)
  /\ UNCHANGED << envVars, storeVars, mounted, loadingFailed, historicalData, filteredData, filterVars,
                  viewVars, redirected, unfollowed >>

\* the store answers the query of attemptFetch with data (lines 179-185, 200-212, 225-231)
UserQuerySucceeds(c) ==
  /\ page = "user-dashboard" /\ calls[c].fn = "fetchUserUpdates" /\ calls[c].pc = "query"
  /\ LET cl == calls[c].cl
         data == OrderDesc(RunQuery(UserQuery(cl.range)))
         fin == UserFinally(c, cl, timers)
         eff == UserApplyFilters(data, activeFilter, stats)
     IN /\ userUpdates' = data
        /\ dataLoaded' = TRUE
        /\ filteredUpdates' = eff[1]
        /\ stats' = eff[2]
        /\ timers' = fin.timers \cup {ApplyTimer(cl.updates, cl.filter, NoTeam, NoRender.range)}
        /\ loadingTimeout' = fin.loadingTimeout
        /\ calls' = [calls EXCEPT ![c].pc = "done", ![c].outcome = "success", ![c].cl = NoRender]
  /\ isLoading' = FALSE
  /\ isRefreshing' = IF calls[c].by = "refresh" THEN FALSE ELSE isRefreshing
  /\ toasts' = RefreshReturns(calls[c].by, toasts)
  /\ UNCHANGED << envVars, storeVars, mounted, loadingFailed, historicalData, filteredData, filterVars,
                  viewVars, redirected, unfollowed >>

\* the store answers the query of attemptFetch with an error (lines 181-197, 218-231)
UserQueryFails(c) ==
  /\ page = "user-dashboard" /\ calls[c].fn = "fetchUserUpdates" /\ calls[c].pc = "query"
  /\ LET cl == calls[c].cl
         retryCount == calls[c].retryCount + 1
         fin == UserFinally(c, cl, timers)
     IN IF retryCount < UserMaxRetries
        THEN /\ calls' = [calls EXCEPT ![c].pc = "backoff", ![c].retryCount = retryCount,
                                       ![c].delay = BaseDelay * retryCount]
             /\ UNCHANGED << flagVars, dataVars, loadingTimeout, timers, toasts >>
        ELSE /\ calls' = [calls EXCEPT ![c].pc = "done", ![c].retryCount = retryCount,
                                       ![c].outcome = "failure", ![c].cl = NoRender]
             /\ toasts' = RefreshReturns(calls[c].by, toasts \cup {<< "failed", c >>})
             /\ userUpdates' = << >>
             /\ filteredUpdates' = << >>
             /\ stats' = UserCalculateStats(<< >>)
             /\ isLoading' = FALSE
             /\ isRefreshing' = IF calls[c].by = "refresh" THEN FALSE ELSE isRefreshing
             /\ timers' = fin.timers
             /\ loadingTimeout' = fin.loadingTimeout
             /\ UNCHANGED << loadingFailed, dataLoaded, historicalData, filteredData >>
  /\ UNCHANGED << envVars, storeVars, mounted, filterVars, viewVars, redirected, unfollowed >>

\* the backoff timer of attemptFetch fires and the query is issued again (lines 192-193)
UserBackoffFires(c) ==
  /\ page = "user-dashboard" /\ calls[c].fn = "fetchUserUpdates" /\ calls[c].pc = "backoff"
  /\ calls' = [calls EXCEPT ![c].pc = "query", ![c].attempts = @ + 1]
  /\ UNCHANGED << envVars, storeVars, mounted, flagVars, dataVars, filterVars, viewVars,
                  loadingTimeout, timers, toasts, redirected, unfollowed >>

\* the loading timeout of fetchUserUpdates fires (lines 152-156)
UserLoadingTimeoutFires(t) ==
  /\ page = "user-dashboard" /\ t \in timers /\ t.kind = "loading"
  /\ timers' = timers \ {t}
  /\ isLoading' = FALSE
  /\ toasts' = toasts \cup {<< "timeout", t.id[1] >>}
  /\ UNCHANGED << envVars, storeVars, mounted, loadingFailed, dataLoaded, isRefreshing, dataVars,
                  filterVars, viewVars, loadingTimeout, calls, redirected, unfollowed >>

\* a delayed applyFilters runs in the render that scheduled it (lines 98-100, 210-212)
UserApplyTimerFires(t) ==
  /\ page = "user-dashboard" /\ t \in timers /\ t.kind = "apply"
  /\ timers' = timers \ {t}
  /\ LET eff == UserApplyFilters(t.cl.updates, t.cl.filter, stats)
     IN filteredUpdates' = eff[1] /\ stats' = eff[2]
  /\ UNCHANGED << envVars, storeVars, mounted, flagVars, userUpdates, historicalData, filteredData,
                  filterVars, viewVars, loadingTimeout, calls, toasts, redirected, unfollowed >>

\* the date inputs (handleDateChange, lines 241-247) and the effect on [user, dateRange]
UserHandleDateChange(name, value) ==
  /\ page = "user-dashboard" /\ mounted
  /\ dateRange[name] # value
  /\ FreeCall(calls) # 0
  /\ dateRange' = [dateRange EXCEPT ![name] = value]
  /\ LET st == UserFetchStart(FreeCall(calls),
                              UserRender(userUpdates, activeFilter, loadingTimeout, dateRange'),
                              "effect", calls, timers)
     IN /\ calls' = st.calls /\ timers' = st.timers /\ loadingTimeout' = st.loadingTimeout
  /\ isLoading' = TRUE
  /\ UNCHANGED << envVars, storeVars, mounted, loadingFailed, dataLoaded, isRefreshing, dataVars,
                  activeFilter, activeTab, selectedTeam, teams, viewVars, toasts, redirected, unfollowed >>

\* refreshData of UserDashboard up to its await (lines 107-112)
UserRefreshData ==
  /\ page = "user-dashboard" /\ mounted
  /\ ~isRefreshing
  /\ FreeCall(calls) # 0
  /\ isRefreshing' = TRUE
  /\ LET st == UserFetchStart(FreeCall(calls),
                              UserRender(userUpdates, activeFilter, loadingTimeout, dateRange),
                              "refresh", calls, timers)
     IN /\ calls' = st.calls /\ timers' = st.timers /\ loadingTimeout' = st.loadingTimeout
  /\ isLoading' = TRUE
  /\ UNCHANGED << envVars, storeVars, mounted, loadingFailed, dataLoaded, dataVars, filterVars,
                  viewVars, toasts, redirected, unfollowed >>

\* clearCacheAndRefresh (lines 129-141) and the second Refresh Data button (lines 346-354):
\* the data is reset and fetchUserUpdates of this render is scheduled after `delay` ms
UserClearAndSchedule(by, delay) ==
  /\ page = "user-dashboard" /\ mounted
  /\ FreeCall(calls) # 0
  /\ userUpdates' = << >>
  /\ filteredUpdates' = << >>
  /\ dataLoaded' = FALSE
  /\ calls' = [calls EXCEPT ![FreeCall(calls)] =
                 [NoCall EXCEPT !.fn = "fetchUserUpdates", !.pc = "scheduled", !.by = by,
                                !.delay = delay,
                                !.cl = UserRender(userUpdates, activeFilter, loadingTimeout,
                                                  dateRange)]]
  /\ UNCHANGED << envVars, storeVars, mounted, isLoading, loadingFailed, isRefreshing, historicalData,
                  filteredData, stats, filterVars, viewVars, loadingTimeout, timers, toasts,
                  redirected, unfollowed >>

\* handleEditSuccess (lines 123-126), the onSuccess callback of the edit modal
UserHandleEditSuccess == showEditModal /\ UserClearAndSchedule("edit", 100)

\* the onClick of the second Refresh Data button (lines 346-354)
UserRefreshButton == UserClearAndSchedule("button", 500)

\* the timer of a scheduled fetchUserUpdates fires (lines 136-138, 351-353)
UserScheduledFetchFires(c) ==
  /\ page = "user-dashboard" /\ calls[c].fn = "fetchUserUpdates" /\ calls[c].pc = "scheduled"
  /\ LET st == UserFetchStart(c, calls[c].cl, calls[c].by, calls, timers)
     IN /\ calls' = st.calls /\ timers' = st.timers /\ loadingTimeout' = st.loadingTimeout
  /\ isLoading' = TRUE
  /\ UNCHANGED << envVars, storeVars, mounted, loadingFailed, dataLoaded, isRefreshing, dataVars,
                  filterVars, viewVars, toasts, redirected, unfollowed >>

UserFilterTypes == {"all", "completed", "in-progress", "blocked"}

\* the delayed applyFilters that are pending
ApplyTimers(tm) == { t \in tm : t.kind = "apply" }

\* filterByCardType of UserDashboard (lines 94-104) and the effect on [userUpdates, activeFilter]
UserFilterByCardType(filterType) ==
  /\ page = "user-dashboard" /\ mounted
  /\ Cardinality(ApplyTimers(timers)) < MaxApplyTimers
  /\ activeFilter' = filterType
  /\ timers' = timers \cup {ApplyTimer(userUpdates, activeFilter, NoTeam, NoRender.range)}
  /\ IF filterType # activeFilter
     THEN LET eff == UserApplyFilters(userUpdates, filterType, stats)
          IN filteredUpdates' = eff[1] /\ stats' = eff[2]
     ELSE UNCHANGED << filteredUpdates, stats >>
  /\ UNCHANGED << envVars, storeVars, mounted, flagVars, userUpdates, historicalData, filteredData,
                  dateRange, activeTab, selectedTeam, teams, viewVars, loadingTimeout, calls,
                  toasts, redirected, unfollowed >>

\* ------------------------------------------------------------- the views
\* <ProtectedRoute allowedRoles={...}> of each page (lines 300, 1591)
allowedRoles(p) ==
  IF p = "user-dashboard" THEN {"user", "manager", "admin"} ELSE {"admin", "manager"}

\* the rows of the table: filteredUpdates.map (lines 552-611), filteredData.map (1674-1700, 1927-1976)
RowsShown ==
  IF user.role \notin allowedRoles(page) \/ ~mounted THEN << >>
  ELSE IF page = "user-dashboard"
       THEN (IF isLoading THEN << >> ELSE filteredUpdates)
       ELSE (IF isLoading \/ loadingFailed THEN << >> ELSE filteredData)

\* the key of expandedRows for the row at index idx: update.id (line 613), `row-${index}` (line 1973)
RowKey(idx) == IF page = "user-dashboard" THEN RowsShown[idx] ELSE idx

\* the edit cell of the list view of UserDashboard (lines 653-675)
UserListShowsEdit(status) ==
  (user.role = "admin" \/ user.role = "manager") \/ isTaskEditable(status)

UserListEditDisabled(status) ==
  user.role # "admin" /\ user.role # "manager" /\ status = "completed"

\* a detail view that renders its edit action for every row
UserDetailAlwaysShowsEdit(status) == TRUE

\* the edit action of the detail view of UserDashboard (lines 741-765)
UserDetailShowsEdit(status) ==
  (user.role = "admin" \/ user.role = "manager") \/ isTaskEditable(status)

UserDetailEditDisabled(status) ==
  user.role # "admin" /\ user.role # "manager" /\ status = "completed"

\* the edit cell of the list view of Dashboard (lines 2038-2052): always rendered, never disabled
DashListShowsEdit(status) == TRUE

DashListEditDisabled(status) == FALSE

\* the edit action of the detail view of Dashboard (lines 2116-2130)
DashDetailShowsEdit(status) == TRUE

DashDetailEditDisabled(status) == FALSE

\* a blocker block that is rendered for every update
DashDetailBlockerTextsUnguarded(i) ==
  { << "blocker_type", Upd(i).blocker_type >>,
    << "expected_resolution_date", Upd(i).expected_resolution_date >>,
    << "blocker_description", Upd(i).blocker_description >> }

\* the block of the detail view of Dashboard that shows the blocker of an update (lines
\* 2134-2153): the fields it renders with their texts
DashDetailBlockerTexts(i) ==
  IF Upd(i).blocker_type # NoBlocker
  THEN { << "blocker_type", Upd(i).blocker_type >>,
         << "expected_resolution_date",
            IF Upd(i).expected_resolution_date # "" THEN Upd(i).expected_resolution_date
            ELSE "Not set" >>,
         << "blocker_description", Upd(i).blocker_description >> }
  ELSE {}

\* the blocker fields that a view renders for an update: no list view and no view of
\* UserDashboard reads them (lines 613-780, 1969-2057)
BlockerTextsShown(view, i) ==
  IF page = "dashboard" /\ view = "detail" THEN DashDetailBlockerTexts(i) ELSE {}

ShowsEdit(view, status) ==
  IF page = "user-dashboard"
  THEN (IF view = "list" THEN UserListShowsEdit(status) ELSE UserDetailShowsEdit(status))
  ELSE (IF view = "list" THEN DashListShowsEdit(status) ELSE DashDetailShowsEdit(status))

EditDisabled(view, status) ==
  IF page = "user-dashboard"
  THEN (IF view = "list" THEN UserListEditDisabled(status) ELSE UserDetailEditDisabled(status))
  ELSE (IF view = "list" THEN DashListEditDisabled(status) ELSE DashDetailEditDisabled(status))

\* toggleRowExpansion (lines 234-239, 1318-1323)
ToggleRowExpansion(idx) ==
  /\ idx \in 1..Len(RowsShown)
  /\ expandedRows' = IF RowKey(idx) \in expandedRows THEN expandedRows \ {RowKey(idx)}
                     ELSE expandedRows \cup {RowKey(idx)}
  /\ Cardinality(expandedRows') <= MaxExpanded
  /\ UNCHANGED << envVars, storeVars, mounted, flagVars, dataVars, filterVars, editingUpdate,
                  showEditModal, asyncVars >>

\* handleEditClick (lines 282-286, 1506-1510) from the edit button of the list or detail view
HandleEditClick(view, idx) ==
  /\ idx \in 1..Len(RowsShown)
  /\ view = "detail" => RowKey(idx) \in expandedRows
  /\ ShowsEdit(view, Upd(RowsShown[idx]).status)
  /\ ~EditDisabled(view, Upd(RowsShown[idx]).status)
  /\ editingUpdate' = RowsShown[idx]
  /\ showEditModal' = TRUE
  /\ UNCHANGED << envVars, storeVars, mounted, flagVars, dataVars, filterVars, expandedRows, asyncVars >>

\* onClose of EditUpdateModal (lines 785-790, 2358-2363)
CloseEditModal ==
  /\ showEditModal
  /\ showEditModal' = FALSE
  /\ UNCHANGED << envVars, storeVars, mounted, flagVars, dataVars, filterVars, expandedRows,
                  editingUpdate, asyncVars >>

\* ------------------------------------------------------------------- Init
\* the useState initial values of the mounted page (lines 15-35, 818-846)
Init ==
  /\ page \in Pages
  /\ user \in Users
  /\ production \in (IF page = "user-dashboard" THEN BOOLEAN ELSE {TRUE})
  /\ mounted = FALSE
  /\ isLoading = (page = "user-dashboard")
  /\ loadingFailed = FALSE
  /\ dataLoaded = FALSE
  /\ isRefreshing = FALSE
  /\ userUpdates = << >> /\ filteredUpdates = << >>
  /\ historicalData = << >> /\ filteredData = << >>
  /\ stats = IF page = "user-dashboard"
             THEN [totalUpdates |-> 0, completedTasks |-> 0, inProgressTasks |-> 0,
                   blockedTasks |-> 0]
             ELSE [totalUpdates |-> 0, totalBlockers |-> 0, completedTasks |-> 0,
                   inProgressTasks |-> 0, stuckTasks |-> 0]
  /\ dateRange = IF page = "user-dashboard"
                 THEN [start |-> Today - UserWindow, end |-> Today]
                 ELSE [start |-> Today - DashWindow, end |-> Today]
  /\ activeFilter = "all" /\ activeTab = "all"
  /\ selectedTeam = NoTeam /\ teams = << >>
  /\ loadingTimeout = NoTimer
  /\ expandedRows = {} /\ editingUpdate = 0 /\ showEditModal = FALSE
  /\ calls = [c \in CallIds |-> NoCall]
  /\ timers = {}
  /\ toasts = {}
  /\ redirected = FALSE
  /\ unfollowed = FALSE
  /\ localStorage = {}
  /\ interval = NoInterval
  /\ visibilityState = "visible"
  /\ sessionRecoveryAttempted = FALSE /\ recoveryInProgress = FALSE

\* --------------------------------------------------------- Dashboard: pure
\* a calculateStats that counts an update with a blocker_type as stuck
DashCalculateStatsBlockersAsStuck(data) ==
  [ totalUpdates |-> Len(data),
    totalBlockers |-> Len(SelectSeq(data, LAMBDA i : Upd(i).blocker_type # NoBlocker)),
    completedTasks |-> Len(SelectSeq(data, LAMBDA i : Upd(i).status = "completed")),
    inProgressTasks |-> Len(SelectSeq(data, LAMBDA i : Upd(i).status = "in-progress")),
    stuckTasks |-> Len(SelectSeq(data, LAMBDA i : Upd(i).status = "blocked"
                                                  \/ Upd(i).blocker_type # NoBlocker)) ]

\* calculateStats of Dashboard (lines 1263-1272)
DashCalculateStats(data) ==
  [ totalUpdates |-> Len(data),
    totalBlockers |-> Len(SelectSeq(data, LAMBDA i : Upd(i).blocker_type # NoBlocker)),
    completedTasks |-> Len(SelectSeq(data, LAMBDA i : Upd(i).status = "completed")),
    inProgressTasks |-> Len(SelectSeq(data, LAMBDA i : Upd(i).status = "in-progress")),
    stuckTasks |-> Len(SelectSeq(data, LAMBDA i : Upd(i).status = "blocked")) ]

\* new Date(created_at).toISOString().split('T')[0]: the UTC calendar day of an instant
IsoDay(ts) == ts[1]

\* new Date() with setDate(getDate() - 7): the same time of day seven days earlier
SevenDaysAgo == << Today - 7, NowMs >>

\* the date range filter of forceApplyFilters (lines 1551-1555)
DashDateStep(data, range) ==
  SelectSeq(data, LAMBDA i : IsoDay(Upd(i).created_at) >= range.start
                             /\ IsoDay(Upd(i).created_at) <= range.end)

\* the team filter of forceApplyFilters (lines 1557-1560)
DashTeamStep(data, team) ==
  IF team # NoTeam THEN SelectSeq(data, LAMBDA i : Upd(i).team_id = team) ELSE data

\* a tab filter whose 'recent' case also drops the newest entry of its input
DashTabStepSkipsFirst(data, tab) ==
  CASE tab = "recent" ->
         (IF data = << >> THEN << >>
          ELSE SelectSeq(Tail(data), LAMBDA i : TsLE(SevenDaysAgo, Upd(i).created_at)))
    [] tab = "blockers" -> SelectSeq(data, LAMBDA i : Upd(i).blocker_type # NoBlocker)
    [] tab \in {"completed", "in-progress", "blocked"} ->
         SelectSeq(data, LAMBDA i : Upd(i).status = tab)
    [] OTHER -> data

\* the tab filter of forceApplyFilters (lines 1562-1583)
DashTabStep(data, tab) ==
  CASE tab = "recent" -> SelectSeq(data, LAMBDA i : TsLE(SevenDaysAgo, Upd(i).created_at))
    [] tab = "blockers" -> SelectSeq(data, LAMBDA i : Upd(i).blocker_type # NoBlocker)
    [] tab \in {"completed", "in-progress", "blocked"} ->
         SelectSeq(data, LAMBDA i : Upd(i).status = tab)
    [] OTHER -> data

\* the three steps of forceApplyFilters (lines 1548-1583)
DashFilter(data, tab, team, range) ==
  DashTabStep(DashTeamStep(DashDateStep(data, range), team), tab)

\* forceApplyFilters (lines 1538-1588) in a render with these values: <<filteredData, stats>>
forceApplyFilters(data, tab, team, range) ==
  IF Len(data) = 0 THEN << << >>, DashCalculateStats(<< >>) >>
  ELSE LET filtered == DashFilter(data, tab, team, range)
       IN << filtered, DashCalculateStats(filtered) >>

\* the teams query of fetchTeamsBasedOnRole (lines 1081-1084, 1092-1096)
TeamsQuery == SelectTeams(1, IF user.role = "admin" THEN "" ELSE user.email)

\* the teamFilter that fetchTeamsBasedOnRole passes to fetchData (lines 1086, 1103-1108)
NestedTeamFilter ==
  IF user.role = "manager" /\ Len(TeamsQuery) = 1 THEN TeamsQuery[1] ELSE NoTeam

\* the query built by fetchData and fetchDataSilently (lines 1152-1178, 1457-1475)
DashQuery(range, teamFilter) ==
  [ email |-> IF user.role = "user" THEN user.email ELSE "",
    gte |-> << range.start, 0 >>, lte |-> << range.end, DayEndSec >>,
    team |-> teamFilter ]

\* ------------------------------------------------- Dashboard: local store
HasItem(ls, k) == \E e \in ls : e.key = k

getItem(ls, k) == (CHOOSE e \in ls : e.key = k).value

setItem(ls, k, v) == { e \in ls : e.key # k } \cup {[key |-> k, value |-> v]}

UserCacheKey == << "aditi", "user", "cache" >>
TeamsKey(email) == << "dashboard", "teams", email >>
ChunkCountKey(email) == << "dashboard", "historicalData", "chunkCount", email >>
\* `${i}` in the key of a chunk
IndexText(i) == << "0", "1", "2", "3" >>[i + 1]

ChunkKey(i, email) == << "dashboard", "historicalData", "chunk", IndexText(i), email >>
LegacyKey(email) == << "dashboard", "historicalData", email >>

\* key.startsWith('dashboard_') && key.includes('@') (line 932): the e-mail addresses of
\* the model are the segments that hold an '@'
IsEmail(seg) == seg \in { u.email : u \in Users } \cup {"bob@x.io", "m9@x.io"}

IsDashboardKey(k) == Len(k) >= 2 /\ k[1] = "dashboard" /\ \E i \in 2..Len(k) : IsEmail(k[i])

DashboardKeys(ls) == { e.key : e \in { x \in ls : IsDashboardKey(x.key) } }

\* dashboardKey.split('dashboard_')[1].split('_')[0] (line 934)
EmailOfKey(k) == k[2]

\* the user e-mail that tryRecoverFromLocalStorage resolves (lines 913-937); dashboardKey is
\* the key that keys.find returned, << >> when it found none; "" when no e-mail is resolved
RecoveredEmail(ls, dashboardKey) ==
  LET cached == IF HasItem(ls, UserCacheKey) /\ getItem(ls, UserCacheKey).parses
                THEN getItem(ls, UserCacheKey).email ELSE ""
  IN IF cached # "" THEN cached
     ELSE IF dashboardKey # << >> THEN EmailOfKey(dashboardKey) ELSE ""

RECURSIVE CombineChunks(_, _, _, _)
\* the loop over the chunks (lines 946-955)
CombineChunks(ls, email, i, chunkCount) ==
  IF i >= chunkCount THEN << >>
  ELSE (IF HasItem(ls, ChunkKey(i, email)) THEN getItem(ls, ChunkKey(i, email)).data ELSE << >>)
       \o CombineChunks(ls, email, i + 1, chunkCount)

\* JSON.parse of a stored chunk throws (line 951), which the outer catch turns into false
ChunkThrows(ls, email) ==
  /\ HasItem(ls, ChunkCountKey(email))
  /\ \E i \in 0..(getItem(ls, ChunkCountKey(email)).count - 1) :
        HasItem(ls, ChunkKey(i, email)) /\ ~getItem(ls, ChunkKey(i, email)).parses

\* tryRecoverFromLocalStorage (lines 909-996): [ok, data]
tryRecoverFromLocalStorage(ls, dashboardKey) ==
  LET userEmail == RecoveredEmail(ls, dashboardKey)
      combinedData == IF userEmail # "" /\ HasItem(ls, ChunkCountKey(userEmail))
                      THEN CombineChunks(ls, userEmail, 0,
                                         getItem(ls, ChunkCountKey(userEmail)).count)
                      ELSE << >>
  IN IF userEmail = "" THEN [ok |-> FALSE, data |-> << >>]
     ELSE IF ChunkThrows(ls, userEmail) THEN [ok |-> FALSE, data |-> << >>]
     ELSE IF Len(combinedData) > 0 THEN [ok |-> TRUE, data |-> combinedData]
     ELSE IF HasItem(ls, LegacyKey(userEmail)) /\ getItem(ls, LegacyKey(userEmail)).parses
          THEN [ok |-> TRUE, data |-> getItem(ls, LegacyKey(userEmail)).data]
          ELSE [ok |-> FALSE, data |-> << >>]

\* the keys that keys.find can return (lines 930-933): the first dashboard key in the order
\* of Object.keys(localStorage), which the browser chooses
FoundKeys(ls) == IF DashboardKeys(ls) = {} THEN {<< >>} ELSE DashboardKeys(ls)

\* an effect that saves the update set next to the teams, as a primary store would
SaveTeamsWithUpdates(ls, teams1) ==
  IF Len(teams1) > 0
  THEN setItem(setItem(ls, TeamsKey(user.email), [teams |-> teams1]),
               LegacyKey(user.email), [data |-> historicalData, parses |-> TRUE])
  ELSE ls

\* the effect that saves the teams (lines 1060-1069)
SaveTeams(ls, teams1) ==
  IF Len(teams1) > 0 THEN setItem(ls, TeamsKey(user.email), [teams |-> teams1])
  ELSE ls

\* ------------------------------------------------------ Dashboard: actions
\* the part of the state that the asynchronous functions of Dashboard write
DashState ==
  [ calls |-> calls, timers |-> timers, lt |-> loadingTimeout, isLoading |-> isLoading,
    loadingFailed |-> loadingFailed, redirected |-> redirected, toasts |-> toasts,
    isRefreshing |-> isRefreshing, unfollowed |-> unfollowed ]

\* the closure of a function of the render with this loadingTimeout and dateRange
DashRender(lt, range) == [NoRender EXCEPT !.lt = lt, !.range = range]

\* the teamFilter of the fetchData invocation at nesting level `level` of call c
FrameTeam(cs, c, level) ==
  IF cs[c].fn = "fetchData" /\ level = 1 THEN cs[c].team ELSE NestedTeamFilter

\* fetchData after `await fetchTeamsBasedOnRole()` up to `await query` (lines 1139-1181),
\* for the invocation at nesting level `level` of call c
DashResume(st, c, level) ==
  [st EXCEPT !.timers = (@ \ {LoadingTimer(st.calls[c].cl.lt)}) \cup {LoadingTimer(<< c, level >>)},
             !.lt = << c, level >>,
             !.calls[c].pc = "query",
             !.calls[c].attempts = 1,
             !.calls[c].depth = level]

\* fetchData(teamFilter) up to its first suspension (lines 1129-1137 and 1071-1115)
DashFetchDataStart(st, c, teamFilter, cl, by) ==
  LET st1 == [st EXCEPT !.isLoading = TRUE, !.loadingFailed = FALSE,
                        !.calls[c] = [NoCall EXCEPT !.fn = "fetchData", !.pc = "teams",
                                                    !.depth = 1, !.team = teamFilter,
                                                    !.cl = cl, !.by = by, !.attempts = 0]]
  IN IF user.role \in {"admin", "manager"} THEN st1
     ELSE DashResume([st1 EXCEPT !.redirected = TRUE], c, 1)

\* fetchTeamsBasedOnRole() called on its own, up to its first suspension (lines 1071-1115)
DashFetchTeamsStart(st, c, cl, by) ==
  IF user.role \in {"admin", "manager"}
  THEN [st EXCEPT !.isLoading = TRUE,
                  !.calls[c] = [NoCall EXCEPT !.fn = "fetchTeams", !.pc = "teams", !.depth = 0,
                                              !.cl = cl, !.by = by]]
  ELSE [st EXCEPT !.isLoading = TRUE, !.redirected = TRUE]

\* an effect calls fetchData / fetchTeamsBasedOnRole.  When no call id is free the
\* invocation runs up to its first await and its query stays unanswered.
SpawnFetchData(st, teamFilter, cl, by) ==
  LET c == FreeSlot(st.calls, st.timers, st.lt)
  IN IF c = 0
     THEN [st EXCEPT !.isLoading = TRUE, !.loadingFailed = FALSE, !.unfollowed = TRUE,
                     !.redirected = IF user.role \in {"admin", "manager"} THEN @ ELSE TRUE]
     ELSE DashFetchDataStart(st, c, teamFilter, cl, by)

SpawnFetchTeams(st, cl, by) ==
  LET c == FreeSlot(st.calls, st.timers, st.lt)
  IN IF c = 0
     THEN [st EXCEPT !.isLoading = TRUE,
                     !.unfollowed = IF user.role \in {"admin", "manager"} THEN TRUE ELSE @,
                     !.redirected = IF user.role \in {"admin", "manager"} THEN @ ELSE TRUE]
     ELSE DashFetchTeamsStart(st, c, cl, by)

SafetyTimer == [kind |-> "safety", id |-> NoTimer, cl |-> [NoRender EXCEPT !.loading = TRUE]]

\* the effect on [user, dataLoaded, teams.length, ...] (lines 867-906) in the render after a
\* commit that changed dataLoaded or teams.length
SafetyEffect(st, dataLoaded1, teams1) ==
  LET st1 == [st EXCEPT !.timers = IF st.isLoading THEN @ \cup {SafetyTimer}
                                   ELSE @ \ {SafetyTimer}]
  IN IF ~dataLoaded1 \/ Len(teams1) = 0
     THEN SpawnFetchTeams(st1, DashRender(st.lt, dateRange), "effect")
     ELSE st1

\* the effects of Dashboard that run after a commit: lines 867-906 when dataLoaded or
\* teams.length changed, lines 1312-1316 when selectedTeam changed
DashEffects(st, dataLoaded1, teams1, selectedTeam1) ==
  LET st1 == IF dataLoaded1 # dataLoaded \/ Len(teams1) # Len(teams)
             THEN SafetyEffect(st, dataLoaded1, teams1) ELSE st
  IN IF selectedTeam1 # selectedTeam
     THEN SpawnFetchData(st1, selectedTeam1, DashRender(st.lt, dateRange), "effect")
     ELSE st1

\* the effect on [dataLoaded, user, selectedTeam] (lines 1423-1450) after a commit: the
\* interval is cleared and, with data loaded, set again with lastRefreshTime = Date.now()
IntervalEffect(dataLoaded1, selectedTeam1) ==
  IF dataLoaded1 = dataLoaded /\ selectedTeam1 = selectedTeam THEN interval
  ELSE IF dataLoaded1
       THEN [on |-> TRUE, team |-> selectedTeam1, range |-> dateRange, due |-> FALSE]
       ELSE NoInterval

\* the primed variables from a DashState
DashAssign(st) ==
  /\ calls' = st.calls /\ timers' = st.timers /\ loadingTimeout' = st.lt
  /\ isLoading' = st.isLoading /\ loadingFailed' = st.loadingFailed
  /\ redirected' = st.redirected /\ toasts' = st.toasts /\ isRefreshing' = st.isRefreshing
  /\ unfollowed' = st.unfollowed

\* a no-user branch that tests only that no load and no recovery is in progress
CallsRefreshUserUnguarded(loading, inProgress, attempted) == ~loading /\ ~inProgress

\* the no-user branch of the effect of lines 867-906 calls refreshUser() (lines 884-889)
CallsRefreshUser(loading, inProgress, attempted) == ~loading /\ ~inProgress /\ ~attempted

\* the mount effects of Dashboard, in source order (lines 852-857, 867-906, 1124-1126, 1312-1316)
DashMount ==
  /\ page = "dashboard" /\ ~mounted
  /\ mounted' = TRUE
  /\ LET cl == DashRender(loadingTimeout, dateRange)
         st1 == SpawnFetchData(DashState, selectedTeam, cl, "effect")
         st2 == SpawnFetchTeams(st1, cl, "effect")
         st3 == SpawnFetchData(st2, selectedTeam, cl, "effect")
         eff == forceApplyFilters(historicalData, activeTab, selectedTeam, dateRange)
     IN /\ IF user # NoUser
           THEN DashAssign(st3) /\ UNCHANGED << sessionRecoveryAttempted, recoveryInProgress >>
           ELSE /\ DashAssign(DashState)
                /\ IF CallsRefreshUser(isLoading, recoveryInProgress, sessionRecoveryAttempted)
                   THEN sessionRecoveryAttempted' = TRUE /\ recoveryInProgress' = TRUE
                   ELSE UNCHANGED << sessionRecoveryAttempted, recoveryInProgress >>
        /\ filteredData' = eff[1] /\ stats' = eff[2]
  /\ UNCHANGED << envVars, localStorage, interval, visibilityState, dataLoaded, userUpdates,
                  filteredUpdates, historicalData, filterVars, viewVars >>

\* refreshUser() resolves (lines 888-891): with a user the effects that depend on user run
\* again, as DashMount; without one recoveryInProgress is reset and the effect of lines
\* 867-906 runs again
DashRefreshUserResolves(u) ==
  /\ page = "dashboard" /\ mounted /\ user = NoUser /\ recoveryInProgress
  /\ user' = u
  /\ LET again == u = NoUser /\ CallsRefreshUser(isLoading, FALSE, sessionRecoveryAttempted)
     IN /\ recoveryInProgress' = again
        /\ sessionRecoveryAttempted' = (sessionRecoveryAttempted \/ again)
  /\ mounted' = (u = NoUser)
  /\ UNCHANGED << page, production, localStorage, interval, visibilityState,
                  flagVars, dataVars, filterVars, viewVars, asyncVars >>

\* refreshUser() rejects (lines 891-896): tryRecoverFromLocalStorage, and the effect on
\* historicalData (lines 1532-1535) applies the filters to what it recovered
DashRefreshUserRejects(dashboardKey) ==
  /\ page = "dashboard" /\ mounted /\ user = NoUser /\ recoveryInProgress
  /\ dashboardKey \in FoundKeys(localStorage)
  /\ LET again == CallsRefreshUser(isLoading, FALSE, sessionRecoveryAttempted)
     IN /\ recoveryInProgress' = again
        /\ sessionRecoveryAttempted' = (sessionRecoveryAttempted \/ again)
  /\ LET rec == tryRecoverFromLocalStorage(localStorage, dashboardKey)
         eff == forceApplyFilters(rec.data, activeTab, selectedTeam, dateRange)
     IN IF rec.ok
        THEN /\ historicalData' = rec.data /\ filteredData' = eff[1] /\ stats' = eff[2]
             /\ dataLoaded' = TRUE /\ loadingFailed' = FALSE
        ELSE UNCHANGED << historicalData, filteredData, stats, dataLoaded, loadingFailed >>
  /\ UNCHANGED << envVars, localStorage, interval, visibilityState,
                  mounted, isLoading, isRefreshing, userUpdates, filteredUpdates, filterVars,
                  viewVars, asyncVars >>

\* the store answers the teams query of fetchTeamsBasedOnRole with rows (lines 1081-1109):
\* setTeams, and fetchData is called, which calls fetchTeamsBasedOnRole again
DashTeamsSucceeds(c) ==
  /\ page = "dashboard" /\ calls[c].pc = "teams"
  /\ calls[c].depth < MaxDepth
  /\ LET teams1 == TeamsQuery
         selectedTeam1 == IF user.role = "manager" /\ Len(teams1) = 1 THEN teams1[1]
                          ELSE selectedTeam
         st1 == [DashState EXCEPT !.isLoading = TRUE, !.loadingFailed = FALSE,
                                  !.calls[c].depth = @ + 1,
                                  !.calls[c].attempts = 0]
         st2 == DashEffects(st1, dataLoaded, teams1, selectedTeam1)
         eff == forceApplyFilters(historicalData, activeTab, selectedTeam1, dateRange)
     IN /\ teams' = teams1
        /\ selectedTeam' = selectedTeam1
        /\ localStorage' = SaveTeams(localStorage, teams1)
        /\ interval' = IntervalEffect(dataLoaded, selectedTeam1)
        /\ DashAssign(st2)
        /\ IF selectedTeam1 # selectedTeam
           THEN filteredData' = eff[1] /\ stats' = eff[2]
           ELSE UNCHANGED << filteredData, stats >>
  /\ UNCHANGED << envVars, ambientVars, mounted, dataLoaded, userUpdates, filteredUpdates,
                  historicalData, dateRange, activeFilter, activeTab, viewVars >>

\* the invocation at the top of call c has returned: the fetchData below it continues, or
\* the call is over
DashReturn(st, c, level) ==
  IF level > 1 THEN DashResume(st, c, level - 1)
  ELSE [st EXCEPT !.calls[c] = NoCall,
                  !.isRefreshing = IF st.calls[c].by = "refresh" THEN FALSE ELSE @,
                  !.toasts = RefreshReturns(st.calls[c].by, @)]

\* the store answers the teams query with an error (lines 1116-1121)
DashTeamsFails(c) ==
  /\ page = "dashboard" /\ calls[c].pc = "teams"
  /\ LET st1 == [DashState EXCEPT !.toasts = @ \cup {<< "teams", 0 >>},
                                  !.isLoading = FALSE, !.loadingFailed = TRUE]
         st2 == IF calls[c].depth = 0 THEN [st1 EXCEPT !.calls[c] = NoCall]
                ELSE DashResume(st1, c, calls[c].depth)
     IN DashAssign(st2)
  /\ UNCHANGED << envVars, storeVars, mounted, dataLoaded, dataVars, filterVars, viewVars >>

\* the finally block of fetchData (lines 1206-1212)
DashFinally(st, c) ==
  LET lt == st.calls[c].cl.lt
  IN [st EXCEPT !.isLoading = FALSE,
                !.timers = IF lt # NoTimer THEN @ \ {LoadingTimer(lt)} ELSE @,
                !.lt = IF lt # NoTimer THEN NoTimer ELSE @]

\* the store answers the query of fetchData with rows (lines 1181-1201, 1206-1212)
DashQuerySucceeds(c) ==
  /\ page = "dashboard" /\ calls[c].pc = "query"
  /\ LET level == calls[c].depth
         data == RunQuery(DashQuery(calls[c].cl.range, FrameTeam(calls, c, level)))
         st1 == DashReturn(DashFinally(DashState, c), c, level)
         st2 == DashEffects(st1, TRUE, teams, selectedTeam)
         eff == forceApplyFilters(data, activeTab, selectedTeam, dateRange)
     IN /\ historicalData' = data
        /\ dataLoaded' = TRUE
        /\ filteredData' = eff[1] /\ stats' = eff[2]
        /\ interval' = IntervalEffect(TRUE, selectedTeam)
        /\ DashAssign(st2)
  /\ UNCHANGED << envVars, localStorage, ambientVars, mounted, userUpdates, filteredUpdates, filterVars,
                  viewVars >>

\* the store answers the query of fetchData with an error (lines 1183-1185, 1202-1212)
DashQueryFails(c) ==
  /\ page = "dashboard" /\ calls[c].pc = "query"
  /\ LET level == calls[c].depth
         st1 == [DashState EXCEPT !.toasts = @ \cup {<< "failed", 0 >>}, !.loadingFailed = TRUE]
         st2 == DashReturn(DashFinally(st1, c), c, level)
     IN DashAssign(st2)
  /\ UNCHANGED << envVars, storeVars, mounted, dataLoaded, dataVars, filterVars, viewVars >>

\* the loading timeout of fetchData fires (lines 1142-1146)
DashLoadingTimeoutFires(t) ==
  /\ page = "dashboard" /\ t \in timers /\ t.kind = "loading"
  /\ timers' = timers \ {t}
  /\ loadingFailed' = TRUE
  /\ isLoading' = FALSE
  /\ toasts' = toasts \cup {<< "timeout", 0 >>}
  /\ UNCHANGED << envVars, storeVars, mounted, dataLoaded, isRefreshing, dataVars, filterVars, viewVars,
                  loadingTimeout, calls, redirected, unfollowed >>

\* the safety timeout of the effect of lines 867-879 fires in a render that was loading
DashSafetyTimeoutFires(dashboardKey) ==
  /\ page = "dashboard" /\ SafetyTimer \in timers
  /\ dashboardKey \in FoundKeys(localStorage)
  /\ LET rec == tryRecoverFromLocalStorage(localStorage, dashboardKey)
         st1 == [DashState EXCEPT !.timers = @ \ {SafetyTimer}, !.isLoading = FALSE,
                                  !.loadingFailed = ~rec.ok]
         dataLoaded1 == IF rec.ok THEN TRUE ELSE dataLoaded
         st2 == DashEffects(st1, dataLoaded1, teams, selectedTeam)
         eff == forceApplyFilters(rec.data, activeTab, selectedTeam, dateRange)
     IN /\ DashAssign(st2)
        /\ dataLoaded' = dataLoaded1
        /\ interval' = IntervalEffect(dataLoaded1, selectedTeam)
        /\ IF rec.ok
           THEN historicalData' = rec.data /\ filteredData' = eff[1] /\ stats' = eff[2]
           ELSE UNCHANGED << historicalData, filteredData, stats >>
  /\ UNCHANGED << envVars, localStorage, ambientVars, mounted, userUpdates, filteredUpdates, filterVars,
                  viewVars >>

\* the main view of Dashboard is rendered (lines 1591, 1674-1700)
DashMainView ==
  page = "dashboard" /\ mounted /\ user.role \in allowedRoles(page) /\ ~isLoading /\ ~loadingFailed

\* the failure view of Dashboard is rendered (lines 1678-1699)
DashFailureView ==
  page = "dashboard" /\ mounted /\ user.role \in allowedRoles(page) /\ ~isLoading /\ loadingFailed

\* refreshData of Dashboard up to its await (lines 1392-1396)
DashRefreshData ==
  /\ DashMainView /\ ~isRefreshing
  /\ FreeCall(calls) # 0
  /\ LET st1 == DashFetchDataStart([DashState EXCEPT !.isRefreshing = TRUE], FreeCall(calls),
                                   selectedTeam, DashRender(loadingTimeout, dateRange), "refresh")
     IN DashAssign(st1)
  /\ UNCHANGED << envVars, storeVars, mounted, dataLoaded, dataVars, filterVars, viewVars >>

\* clearCache and clearCacheAndRefresh of Dashboard (lines 1377-1389, 1408-1420)
DashClearCache(by) ==
  /\ DashMainView \/ DashFailureView
  /\ FreeCall(calls) # 0
  /\ LET st1 == DashFetchDataStart(DashState, FreeCall(calls), selectedTeam,
                                   DashRender(loadingTimeout, dateRange), by)
         st2 == DashEffects(st1, FALSE, teams, selectedTeam)
         eff == forceApplyFilters(<< >>, activeTab, selectedTeam, dateRange)
     IN /\ DashAssign(st2)
        /\ historicalData' = << >>
        /\ filteredData' = eff[1] /\ stats' = eff[2]
        /\ dataLoaded' = FALSE
        /\ interval' = IntervalEffect(FALSE, selectedTeam)
  /\ UNCHANGED << envVars, localStorage, ambientVars, mounted, userUpdates, filteredUpdates, filterVars,
                  viewVars >>

\* the Retry button of the failure view (lines 1684-1687)
DashRetry ==
  /\ DashFailureView
  /\ FreeCall(calls) # 0
  /\ LET st1 == DashFetchTeamsStart([DashState EXCEPT !.loadingFailed = FALSE], FreeCall(calls),
                                    DashRender(loadingTimeout, dateRange), "retry")
     IN DashAssign(st1)
  /\ UNCHANGED << envVars, storeVars, mounted, dataLoaded, dataVars, filterVars, viewVars >>

\* the team select (lines 1767-1776) with the effects on selectedTeam (lines 1312-1316, 1526-1529)
DashSelectTeam(t) ==
  /\ DashMainView
  /\ t \in {NoTeam} \cup Range(teams) /\ t # selectedTeam
  /\ FreeCall(calls) # 0
  /\ selectedTeam' = t
  /\ LET st1 == DashEffects(DashState, dataLoaded, teams, t)
         eff == forceApplyFilters(historicalData, activeTab, t, dateRange)
     IN /\ DashAssign(st1)
        /\ filteredData' = eff[1] /\ stats' = eff[2]
  /\ interval' = IntervalEffect(dataLoaded, t)
  /\ UNCHANGED << envVars, localStorage, ambientVars, mounted, dataLoaded, userUpdates, filteredUpdates,
                  historicalData, dateRange, activeFilter, activeTab, teams, viewVars >>

DashTabs == {"all", "recent", "blockers", "completed", "in-progress", "blocked"}

\* the tab buttons (lines 1864-1914) with the effects on activeTab (lines 859-865, 1532-1535)
DashSetActiveTab(tab) ==
  /\ DashMainView
  /\ tab # activeTab
  /\ activeTab' = tab
  /\ LET eff == forceApplyFilters(historicalData, tab, selectedTeam, dateRange)
     IN filteredData' = eff[1] /\ stats' = eff[2]
  /\ UNCHANGED << envVars, storeVars, mounted, flagVars, userUpdates, filteredUpdates,
                  historicalData, dateRange, activeFilter, selectedTeam, teams, viewVars,
                  asyncVars >>

\* the date inputs of Dashboard (lines 1781-1797) with the effects on dateRange; no effect
\* that fetches has dateRange among its dependencies
DashSetDateRange(name, value) ==
  /\ DashMainView
  /\ dateRange[name] # value
  /\ dateRange' = [dateRange EXCEPT ![name] = value]
  /\ LET eff == forceApplyFilters(historicalData, activeTab, selectedTeam, dateRange')
     IN filteredData' = eff[1] /\ stats' = eff[2]
  /\ UNCHANGED << envVars, storeVars, mounted, flagVars, userUpdates, filteredUpdates,
                  historicalData, activeFilter, activeTab, selectedTeam, teams, viewVars,
                  asyncVars >>

\* the onClick of the Refresh Filters button (lines 1823-1831)
DashRefreshFilters ==
  /\ DashMainView
  /\ LET eff == forceApplyFilters(historicalData, activeTab, selectedTeam, dateRange)
     IN filteredData' = eff[1] /\ stats' = eff[2]
  /\ UNCHANGED << envVars, storeVars, mounted, flagVars, userUpdates, filteredUpdates,
                  historicalData, filterVars, viewVars, asyncVars >>

DashCardTypes == {"total", "completed", "in-progress", "blocked"}

\* filterByCardType of Dashboard (lines 1279-1310) from the cards (lines 1705-1748), with the
\* effects on selectedTeam and activeTab; the delayed applyFilters is the one of this render
DashFilterByCardType(filterType) ==
  /\ DashMainView
  /\ Cardinality(ApplyTimers(timers)) < MaxApplyTimers
  /\ LET tab == IF filterType = "total" THEN "all" ELSE filterType
         st1 == [DashState EXCEPT !.timers = @ \cup {ApplyTimer(historicalData, activeTab,
                                                                 selectedTeam, dateRange)}]
         st2 == DashEffects(st1, dataLoaded, teams, NoTeam)
         eff == forceApplyFilters(historicalData, tab, NoTeam, dateRange)
     IN /\ activeTab' = tab
        /\ selectedTeam' = NoTeam
        /\ DashAssign(st2)
        /\ interval' = IntervalEffect(dataLoaded, NoTeam)
        /\ IF tab # activeTab \/ selectedTeam # NoTeam
           THEN filteredData' = eff[1] /\ stats' = eff[2]
           ELSE UNCHANGED << filteredData, stats >>
  /\ UNCHANGED << envVars, localStorage, ambientVars, mounted, dataLoaded, userUpdates,
                  filteredUpdates, historicalData, dateRange, activeFilter, teams, viewVars >>

\* the delayed applyFilters of filterByCardType runs in the render that scheduled it
\* (lines 1304-1306)
DashApplyTimerFires(t) ==
  /\ page = "dashboard" /\ t \in timers /\ t.kind = "apply"
  /\ timers' = timers \ {t}
  /\ LET eff == forceApplyFilters(t.cl.updates, t.cl.filter, t.cl.team, t.cl.range)
     IN filteredData' = eff[1] /\ stats' = eff[2]
  /\ UNCHANGED << envVars, storeVars, mounted, flagVars, userUpdates, filteredUpdates,
                  historicalData, filterVars, viewVars, loadingTimeout, calls, toasts,
                  redirected, unfollowed >>

\* refreshInterval (5 minutes) has elapsed since lastRefreshTime (lines 1439-1440)
DashTimePasses ==
  /\ page = "dashboard" /\ interval.on /\ ~interval.due
  /\ interval' = [interval EXCEPT !.due = TRUE]
  /\ UNCHANGED << envVars, localStorage, ambientVars, mounted, flagVars, dataVars, filterVars, viewVars,
                  asyncVars >>

\* the tab is hidden or shown; handleVisibilityChange (lines 1004-1049) writes sessionStorage
\* and a class of document.body only, no state of the component
DashVisibilityChange ==
  /\ page = "dashboard" /\ mounted
  /\ visibilityState' = IF visibilityState = "visible" THEN "hidden" ELSE "visible"
  /\ UNCHANGED << envVars, localStorage, interval, sessionRecoveryAttempted, recoveryInProgress,
                  mounted, flagVars, dataVars, filterVars, viewVars, asyncVars >>

\* a setInterval callback without the test of document.visibilityState
DashPeriodicTickWhileHidden ==
  /\ page = "dashboard" /\ interval.on
  /\ interval.due
  /\ FreeCall(calls) # 0
  /\ calls' = [calls EXCEPT ![FreeCall(calls)] =
                 [NoCall EXCEPT !.fn = "fetchDataSilently", !.pc = "silent",
                                !.team = interval.team, !.attempts = 1, !.by = "interval",
                                !.cl = DashRender(NoTimer, interval.range)]]
  /\ interval' = [interval EXCEPT !.due = FALSE]
  /\ UNCHANGED << envVars, localStorage, ambientVars, mounted, flagVars, dataVars, filterVars,
                  viewVars, loadingTimeout, timers, toasts, redirected, unfollowed >>

\* the callback of setInterval runs a silent refresh (lines 1429-1446); isReturningFromTabSwitch
\* (tabSwitchUtil.ts lines 31-34) is always false
DashPeriodicTick ==
  /\ page = "dashboard" /\ interval.on
  /\ visibilityState = "visible" /\ interval.due
  /\ FreeCall(calls) # 0
  /\ calls' = [calls EXCEPT ![FreeCall(calls)] =
                 [NoCall EXCEPT !.fn = "fetchDataSilently", !.pc = "silent",
                                !.team = interval.team, !.attempts = 1, !.by = "interval",
                                !.cl = DashRender(NoTimer, interval.range)]]
  /\ interval' = [interval EXCEPT !.due = FALSE]
  /\ UNCHANGED << envVars, localStorage, ambientVars, mounted, flagVars, dataVars, filterVars, viewVars,
                  loadingTimeout, timers, toasts, redirected, unfollowed >>

\* the store answers the query of fetchDataSilently with rows (lines 1473-1493) and the
\* effect on historicalData (lines 1532-1535) applies the filters
DashSilentSucceeds(c) ==
  /\ page = "dashboard" /\ calls[c].pc = "silent"
  /\ LET data == RunQuery(DashQuery(calls[c].cl.range, calls[c].team))
         eff == forceApplyFilters(data, activeTab, selectedTeam, dateRange)
     IN /\ historicalData' = data
        /\ filteredData' = eff[1] /\ stats' = eff[2]
  /\ calls' = [calls EXCEPT ![c] = NoCall]
  /\ UNCHANGED << envVars, storeVars, mounted, flagVars, userUpdates, filteredUpdates,
                  filterVars, viewVars, loadingTimeout, timers, toasts, redirected, unfollowed >>

\* a fetchDataSilently whose catch block reports the error as the catch block of fetchData does
DashSilentFailsAsFetchData(c) ==
  /\ page = "dashboard" /\ calls[c].pc = "silent"
  /\ calls' = [calls EXCEPT ![c] = NoCall]
  /\ loadingFailed' = TRUE
  /\ toasts' = toasts \cup {<< "failed", 0 >>}
  /\ UNCHANGED << envVars, storeVars, mounted, isLoading, dataLoaded, isRefreshing, dataVars,
                  filterVars, viewVars, loadingTimeout, timers, redirected, unfollowed >>

\* the store answers the query of fetchDataSilently with an error (lines 1475-1477, 1499-1501)
DashSilentFails(c) ==
  /\ page = "dashboard" /\ calls[c].pc = "silent"
  /\ calls' = [calls EXCEPT ![c] = NoCall]
  /\ UNCHANGED << envVars, storeVars, mounted, flagVars, dataVars, filterVars, viewVars,
                  loadingTimeout, timers, toasts, redirected, unfollowed >>

\* the periodic silent refresh of Dashboard
DashRefreshNext ==
  \/ DashTimePasses
  \/ DashPeriodicTick
  \/ DashVisibilityChange
  \/ \E c \in CallIds : DashSilentSucceeds(c)
  \/ \E c \in CallIds : DashSilentFails(c)

\* the fetch machinery of Dashboard
DashFetchNext ==
  \/ DashMount
  \/ \E c \in CallIds : DashTeamsSucceeds(c)
  \/ \E c \in CallIds : DashTeamsFails(c)
  \/ \E c \in CallIds : DashQuerySucceeds(c)
  \/ \E c \in CallIds : DashQueryFails(c)
  \/ \E t \in timers : DashLoadingTimeoutFires(t)
  \/ \E k \in FoundKeys(localStorage) : DashSafetyTimeoutFires(k)

DashInputNext ==
  \/ DashRefreshData
  \/ DashClearCache("clearCache")
  \/ DashRetry
  \/ \E t \in Range(teams) \cup {NoTeam} : DashSelectTeam(t)

\* the fetch machinery of UserDashboard with the inputs that start a fetch
UserFetchNext ==
  \/ UserMount
  \/ \E c \in CallIds : UserQuerySucceeds(c)
  \/ \E c \in CallIds : UserQueryFails(c)
  \/ \E c \in CallIds : UserBackoffFires(c)
  \/ \E t \in timers : UserLoadingTimeoutFires(t)
  \/ \E t \in timers : UserApplyTimerFires(t)
  \/ \E c \in CallIds : UserScheduledFetchFires(c)

UserInputNext ==
  \/ \E n \in {"start", "end"}, v \in DayChoices : UserHandleDateChange(n, v)
  \/ UserRefreshData
  \/ UserRefreshButton

\* handleEditSuccess of Dashboard (lines 1371-1374), the onSuccess callback of the edit modal
DashHandleEditSuccess == showEditModal /\ DashClearCache("edit")

ViewNext ==
  \/ \E i \in UpdateIds : ToggleRowExpansion(i)
  \/ \E v \in {"list", "detail"}, i \in UpdateIds : HandleEditClick(v, i)
  \/ CloseEditModal
  \/ UserHandleEditSuccess
  \/ DashHandleEditSuccess

Next == UserFetchNext \/ UserInputNext \/ DashFetchNext \/ DashInputNext \/ DashRefreshNext

Spec == Init /\ [][Next]_vars

\* the pages with the inputs of the table: row expansion, edit
ViewSpec == Init /\ [][UserFetchNext \/ DashFetchNext \/ ViewNext]_vars

\* the store answers every query of the first load; the teams query of a nested fetchData
\* is the one that fails
LoadNext ==
  \/ UserMount
  \/ \E c \in CallIds : UserQuerySucceeds(c)
  \/ DashMount
  \/ \E c \in CallIds : DashTeamsSucceeds(c)
  \/ \E c \in CallIds : DashTeamsFails(c)
  \/ \E c \in CallIds : DashQuerySucceeds(c)

\* the inputs of the filters of both pages
FilterNext ==
  \/ \E f \in UserFilterTypes : UserFilterByCardType(f)
  \/ \E t \in timers : UserApplyTimerFires(t)
  \/ \E tab \in DashTabs : DashSetActiveTab(tab)
  \/ \E n \in {"start", "end"}, v \in DayChoices : DashSetDateRange(n, v)
  \/ DashRefreshFilters
  \/ \E f \in DashCardTypes : DashFilterByCardType(f)
  \/ \E t \in timers : DashApplyTimerFires(t)

\* the pages with the inputs of the filters
FilterSpec == Init /\ [][LoadNext \/ FilterNext]_vars

\* the timers of the fetches, which stay armed after the fetch has returned
TimeoutNext ==
  \/ \E t \in timers : UserLoadingTimeoutFires(t)
  \/ \E t \in timers : DashLoadingTimeoutFires(t)

\* the pages with the inputs of the filters, followed until every timer has fired
SettleSpec == Init /\ [][LoadNext \/ FilterNext \/ TimeoutNext]_vars

\* the update sets a fetch can place: the rows of any subset of the table, in table order
UpdateSets == { SelectIds(1, [i \in UpdateIds |-> i \in S]) : S \in SUBSET UpdateIds }

\* a page after its first load, with any update set as the loaded data: the flags after the
\* finally block, the displayed set and the stats after the effects that apply the filters
EngineInit ==
  /\ page \in Pages
  /\ user \in { u \in Users : IF page = "user-dashboard" THEN u.role = "user"
                                ELSE u.role \in allowedRoles(page) }
  /\ production = TRUE
  /\ mounted = TRUE
  /\ isLoading = FALSE /\ loadingFailed = FALSE /\ dataLoaded = TRUE /\ isRefreshing = FALSE
  /\ userUpdates \in (IF page = "user-dashboard" THEN UpdateSets ELSE {<< >>})
  /\ historicalData \in (IF page = "dashboard" THEN UpdateSets ELSE {<< >>})
  /\ dateRange = IF page = "user-dashboard"
                 THEN [start |-> Today - UserWindow, end |-> Today]
                 ELSE [start |-> Today - DashWindow, end |-> Today]
  /\ activeFilter = "all" /\ activeTab = "all"
  /\ teams = IF page = "dashboard" THEN TeamsQuery ELSE << >>
  /\ selectedTeam \in {NoTeam} \cup Range(teams)
  /\ filteredUpdates = UserApplyFilters(userUpdates, activeFilter,
                                        UserCalculateStats(<< >>))[1]
  /\ filteredData = forceApplyFilters(historicalData, activeTab, selectedTeam, dateRange)[1]
  /\ stats = IF page = "user-dashboard"
             THEN UserApplyFilters(userUpdates, activeFilter, UserCalculateStats(<< >>))[2]
             ELSE forceApplyFilters(historicalData, activeTab, selectedTeam, dateRange)[2]
  /\ loadingTimeout = NoTimer
  /\ expandedRows = {} /\ editingUpdate = 0 /\ showEditModal = FALSE
  /\ calls = [c \in CallIds |-> NoCall]
  /\ timers = {}
  /\ toasts = {}
  /\ redirected = FALSE
  /\ unfollowed = FALSE
  /\ localStorage = SaveTeams({}, teams)
  /\ interval = IF page = "dashboard"
                THEN [on |-> TRUE, team |-> selectedTeam, range |-> dateRange, due |-> FALSE]
                ELSE NoInterval
  /\ visibilityState = "visible"
  /\ sessionRecoveryAttempted = FALSE /\ recoveryInProgress = FALSE

\* the inputs that apply the filters without a fetch
EngineNext ==
  \/ \E f \in UserFilterTypes : UserFilterByCardType(f)
  \/ \E t \in timers : UserApplyTimerFires(t)
  \/ \E tab \in DashTabs : DashSetActiveTab(tab)
  \/ \E n \in {"start", "end"}, v \in DayChoices : DashSetDateRange(n, v)
  \/ DashRefreshFilters

\* the filters and the stats of both pages over every update set
EngineSpec == EngineInit /\ [][EngineNext]_vars

\* entries that an earlier session of the dashboard of CachedEmail can have left in localStorage
CachedEmail == "m1@x.io"

CacheEntry == [key |-> UserCacheKey, value |-> [email |-> CachedEmail, parses |-> TRUE]]

CountEntry(n) == [key |-> ChunkCountKey(CachedEmail), value |-> [count |-> n]]

ChunkEntry(i, data) ==
  [key |-> ChunkKey(i, CachedEmail), value |-> [data |-> data, parses |-> TRUE]]

LegacyEntry(data, parses) ==
  [key |-> LegacyKey(CachedEmail), value |-> [data |-> data, parses |-> parses]]

\* the contents of localStorage when the page is opened
StoredStates ==
  { {},
    {CacheEntry, CountEntry(2), ChunkEntry(0, << 6, 9 >>), ChunkEntry(1, << 1 >>),
     LegacyEntry(<< 2 >>, TRUE)},
    {CacheEntry, LegacyEntry(<< 2, 6 >>, TRUE)},
    {CacheEntry, CountEntry(2), ChunkEntry(0, << >>), LegacyEntry(<< 2 >>, TRUE)},
    {CacheEntry, CountEntry(1), ChunkEntry(0, << >>)},
    {CacheEntry, CountEntry(0), LegacyEntry(<< >>, TRUE)},
    {CacheEntry, LegacyEntry(<< >>, FALSE)},
    {CountEntry(1), ChunkEntry(0, << 6 >>)} }

\* what useAuth gives Dashboard: the manager of the cached session, or no user
SessionUsers == { u \in Users : u.email = CachedEmail } \cup {NoUser}

\* Dashboard opened with or without a resolved session, over each content of localStorage
RecoveryInit ==
  /\ page = "dashboard"
  /\ user \in SessionUsers
  /\ production = TRUE
  /\ mounted = FALSE
  /\ isLoading = FALSE /\ loadingFailed = FALSE /\ dataLoaded = FALSE /\ isRefreshing = FALSE
  /\ userUpdates = << >> /\ filteredUpdates = << >>
  /\ historicalData = << >> /\ filteredData = << >>
  /\ stats = DashCalculateStats(<< >>)
  /\ dateRange = [start |-> Today - DashWindow, end |-> Today]
  /\ activeFilter = "all" /\ activeTab = "all"
  /\ selectedTeam = NoTeam /\ teams = << >>
  /\ loadingTimeout = NoTimer
  /\ expandedRows = {} /\ editingUpdate = 0 /\ showEditModal = FALSE
  /\ calls = [c \in CallIds |-> NoCall]
  /\ timers = {}
  /\ toasts = {}
  /\ redirected = FALSE
  /\ unfollowed = FALSE
  /\ localStorage \in StoredStates
  /\ interval = NoInterval
  /\ visibilityState = "visible"
  /\ sessionRecoveryAttempted = FALSE /\ recoveryInProgress = FALSE

\* the session recovery of the effect of lines 880-902
DashSessionNext ==
  \/ \E k \in FoundKeys(localStorage) : DashRefreshUserRejects(k)
  \/ \E u \in SessionUsers : DashRefreshUserResolves(u)

\* Dashboard with the session recovery and the recovery from localStorage
RecoverySpec == RecoveryInit /\ [][DashFetchNext \/ DashSessionNext \/ DashRetry]_vars

\* the operations of Dashboard that fetch, clear or recover the update set
CacheNext ==
  \/ DashRetry
  \/ DashClearCache("clearCache")
  \/ DashTimePasses
  \/ DashPeriodicTick
  \/ \E c \in CallIds : DashSilentSucceeds(c)
  \/ \E c \in CallIds : DashSilentFails(c)

\* Dashboard over each content of localStorage with the live fetches, the silent refresh,
\* Clear Cache and the recovery
CacheSpec == RecoveryInit /\ [][DashFetchNext \/ DashSessionNext \/ CacheNext]_vars

\* ================================================================ properties
\* the rule of section 4.1 for the acting user and the update with id i
EditPermitted(i) ==
  \/ user.role \in {"admin", "manager"}
  \/ (Upd(i).employee_email = user.email /\ Upd(i).status \in {"to-do", "in-progress"})

\* the view renders an edit control for the status that a click can act on
EditOffered(view, status) == ShowsEdit(view, status) /\ ~EditDisabled(view, status)

\* C1: the list view offers the edit affordance for a displayed update exactly when the
\* acting user is an admin or a manager, or owns the update and its status is to-do or
\* in-progress; and the edit modal is only ever open on an update that the rule permits.
C1_EditAuthorization ==
  /\ \A idx \in 1..Len(RowsShown) :
        EditOffered("list", Upd(RowsShown[idx]).status) <=> EditPermitted(RowsShown[idx])
  /\ showEditModal => EditPermitted(editingUpdate)

\* a user edits their own in-progress update while a completed one is displayed read-only
C1_Witness ==
  /\ page = "user-dashboard" /\ user.role = "user"
  /\ showEditModal /\ Upd(editingUpdate).status = "in-progress"
  /\ \E idx \in 1..Len(RowsShown) :
        /\ Upd(RowsShown[idx]).status = "completed"
        /\ ~EditOffered("list", "completed")

\* C2: for every role and every status, the list view and the expanded detail view of the
\* mounted page agree on whether the edit control is shown and on whether it is disabled.
C2_EditParity ==
  \A status \in Statuses :
    /\ ShowsEdit("list", status) = ShowsEdit("detail", status)
    /\ EditDisabled("list", status) = EditDisabled("detail", status)

\* a user has expanded a row whose status is blocked: neither view renders an edit control
C2_Witness ==
  /\ page = "user-dashboard" /\ user.role = "user"
  /\ \E idx \in 1..Len(RowsShown) :
        /\ RowKey(idx) \in expandedRows
        /\ Upd(RowsShown[idx]).status = "blocked"
        /\ ~ShowsEdit("list", "blocked") /\ ~ShowsEdit("detail", "blocked")

\* every update of data lies in the requested date range, belongs to the caller when the
\* role is user, and belongs to the requested team when there is one
Scoped(data, range, teamFilter) ==
  \A i \in Range(data) :
    /\ TsLE(<< range.start, 0 >>, Upd(i).created_at)
    /\ TsLE(Upd(i).created_at, << range.end, DayEndMs >>)
    /\ (user.role = "user" => Upd(i).employee_email = user.email)
    /\ (teamFilter # NoTeam => Upd(i).team_id = teamFilter)

\* C3: whenever a fetch (fetchUserUpdates, fetchData or fetchDataSilently) places updates in
\* the update set, every one of them has created_at within the date range of the request,
\* is owned by the caller if the role is user, and has the team of the request if the
\* request names a team.
C3_FetchScoped ==
  [][\A c \in CallIds :
       /\ UserQuerySucceeds(c) => Scoped(userUpdates', calls[c].cl.range, NoTeam)
       /\ DashQuerySucceeds(c) =>
            Scoped(historicalData', calls[c].cl.range, FrameTeam(calls, c, calls[c].depth))
       /\ DashSilentSucceeds(c) => Scoped(historicalData', calls[c].cl.range, calls[c].team)]_vars

\* a manager's fetch for team T1 has placed the updates of T1, and only those
C3_Witness ==
  /\ page = "dashboard" /\ user.role = "manager" /\ dataLoaded
  /\ historicalData # << >>
  /\ \A i \in Range(historicalData) : Upd(i).team_id = "T1"

\* C4: when the role is manager and fetchTeamsBasedOnRole has resolved the manager's teams,
\* every update that fetchData or fetchDataSilently places in the update set belongs to one
\* of those teams, whatever the team filter.
C4_ManagerScoped ==
  [][\A c \in CallIds :
       (/\ user.role = "manager" /\ teams # << >>
        /\ (DashQuerySucceeds(c) \/ DashSilentSucceeds(c)))
       => \A i \in Range(historicalData') : Upd(i).team_id \in Range(teams)]_vars

\* the retry budget of an interactive fetch
RetryBudget == IF production THEN ProdRetries ELSE DevRetries

\* C5: in every interactive fetch (fetchUserUpdates and fetchData) the number of query
\* attempts never exceeds the retry budget (3 in production, 1 otherwise), and a query that
\* fails with budget left is issued again after BaseDelay times the number of the retry.
C5_RetryWithBackoff ==
  [][\A c \in CallIds :
       /\ calls'[c].attempts <= RetryBudget
       /\ ((UserQueryFails(c) \/ (DashQueryFails(c) /\ user.role \in allowedRoles(page)))
           /\ calls[c].attempts < RetryBudget)
          => (calls'[c].pc = "backoff" /\ calls'[c].delay = BaseDelay * calls[c].attempts)]_vars

\* the error notifications surfaced for call c of UserDashboard
ErrorsOf(ts, c) == { t \in ts : t[2] = c }

\* C6: a fetch whose query failed fewer times than the retry budget and then succeeded
\* places the successful response in the update set and, having completed without an error
\* notification, has none surfaced for it afterwards (neither query-failure nor timeout).
C6_RecoveryWithinBudget ==
  [][\A c \in CallIds :
       /\ (UserQuerySucceeds(c) /\ calls[c].retryCount \in 1..(RetryBudget - 1))
          => userUpdates' = OrderDesc(RunQuery(UserQuery(calls[c].cl.range)))
       /\ (/\ page = "user-dashboard" /\ calls[c].outcome = "success"
           /\ calls[c].retryCount \in 1..(RetryBudget - 1)
           /\ ErrorsOf(toasts, c) = {})
          => ErrorsOf(toasts', c) = {}]_vars

\* C7: the step in which a fetch gives up (its retry budget is exhausted, or its single
\* attempt failed) leaves the update set and the displayed set as they were.
C7_UnchangedOnFailure ==
  [][\A c \in CallIds :
       ((UserQueryFails(c) /\ calls'[c].outcome = "failure")
          \/ (DashQueryFails(c) /\ user.role \in allowedRoles(page)))
       => /\ userUpdates' = userUpdates /\ filteredUpdates' = filteredUpdates
          /\ historicalData' = historicalData /\ filteredData' = filteredData]_vars

\* C8: a fetch of UserDashboard whose query attempts all failed has surfaced exactly one
\* error notification, counting the query-failure toast and the timeout toast of the timer
\* the fetch armed.
C8_ErrorOnce ==
  \A c \in CallIds :
    (page = "user-dashboard" /\ calls[c].outcome = "failure")
    => Cardinality(ErrorsOf(toasts, c)) = 1

\* nothing is pending: every invocation has run to its end and every timer has fired
Quiescent ==
  /\ mounted /\ ~unfollowed
  /\ \A c \in CallIds : calls[c].pc \in {"idle", "done"}
  /\ timers = {}

\* C9: the loading flag is released on every exit path: once the store has answered every
\* query and every timer has fired, isLoading is false.
C9_LoadingReleased == Quiescent => ~isLoading

\* call c is an interactive fetch whose query has not been answered for the last time
InFlight(c) ==
  \/ calls[c].fn = "fetchUserUpdates" /\ calls[c].pc \in {"query", "backoff"}
  \/ calls[c].fn = "fetchData" /\ calls[c].pc \in {"teams", "query"}

\* C10: every interactive fetch arms a maximum-wait timer: while an interactive fetch is in
\* flight and the loading indicator is up, a maximum-wait timer is pending.
C10_MaxWaitArmed ==
  (isLoading /\ \E c \in CallIds : InFlight(c)) => \E t \in timers : t.kind = "loading"


\* C11: the steps of a silent refresh (its start on the polling tick, and the answer of the
\* store) leave isLoading and loadingFailed unchanged; the start and a failed query leave the
\* update set, the displayed set, the stats and all four flags unchanged and surface no
\* error; the update set changes only in the step in which the query succeeds.
C11_SilentFrame ==
  [][\A c \in CallIds :
       /\ (DashPeriodicTick \/ DashSilentSucceeds(c) \/ DashSilentFails(c))
          => (isLoading' = isLoading /\ loadingFailed' = loadingFailed)
       /\ (DashPeriodicTick \/ DashSilentFails(c))
          => (UNCHANGED << dataVars, flagVars >> /\ toasts' = toasts)]_vars

\* a silent refresh is in flight while the loaded updates stay displayed
C11_Witness ==
  /\ \E c \in CallIds : calls[c].fn = "fetchDataSilently" /\ calls[c].pc = "silent"
  /\ DashMainView /\ dataLoaded /\ filteredData # << >>

\* C12: a silent refresh is issued only by the polling tick of the interval, only with data
\* loaded and a user resolved, only while the document is visible, and only when the refresh
\* interval has elapsed since the last refresh time, which the issue resets: the next
\* issue needs the full interval to elapse again.
C12_RefreshGated ==
  [][\A c \in CallIds :
       (calls[c].fn # "fetchDataSilently" /\ calls'[c].fn = "fetchDataSilently")
       => /\ DashPeriodicTick
          /\ dataLoaded /\ user # NoUser
          /\ visibilityState = "visible"
          /\ interval.on /\ interval.due /\ ~interval'.due]_vars

\* a silent refresh was issued and the tab was hidden afterwards, with the interval running
C12_Witness ==
  /\ \E c \in CallIds : calls[c].fn = "fetchDataSilently"
  /\ interval.on /\ ~interval.due /\ visibilityState = "hidden"

\* C13: applying the filter of either page twice with the same configuration (date range,
\* team, tab) gives the same displayed set as applying it once, for every update set.
C13_FilterIdempotent ==
  LET onceD == forceApplyFilters(historicalData, activeTab, selectedTeam, dateRange)[1]
      onceU == UserApplyFilters(userUpdates, activeFilter, stats)[1]
  IN /\ forceApplyFilters(onceD, activeTab, selectedTeam, dateRange)[1] = onceD
     /\ UserApplyFilters(onceU, activeFilter, stats)[1] = onceU

\* the 'recent' tab of the manager dashboard removes some of the loaded updates and keeps others
C13_Witness ==
  /\ page = "dashboard" /\ activeTab = "recent"
  /\ filteredData = DashFilter(historicalData, activeTab, selectedTeam, dateRange)
  /\ filteredData # << >> /\ Len(filteredData) < Len(historicalData)

\* what section 4.3 says a tab keeps
TabKeeps(i, tab) ==
  CASE tab = "all" -> TRUE
    [] tab = "recent" -> TsLE(<< Today - 7, NowMs >>, Upd(i).created_at)
    [] tab = "blockers" -> Upd(i).blocker_type # NoBlocker
    [] OTHER -> Upd(i).status = tab

StatsInputs == { userUpdates, filteredUpdates, historicalData, filteredData, << >> }

\* C16: for every update set given to calculateStats of either page, the total is the size
\* of the set and completed + in-progress + blocked is at most the total; the blocker count
\* is the number of updates with a blocker_type whatever their status, so an update that is
\* blocked and has a blocker_type counts once as blocked, once as a blocker and once in the total.
C16_StatsConsistent ==
  \A U \in StatsInputs :
    LET d == DashCalculateStats(U)
        u == UserCalculateStats(U)
    IN /\ d.totalUpdates = Len(U) /\ u.totalUpdates = Len(U)
       /\ d.completedTasks + d.inProgressTasks + d.stuckTasks <= d.totalUpdates
       /\ u.completedTasks + u.inProgressTasks + u.blockedTasks <= u.totalUpdates
       /\ d.totalBlockers = Cardinality({ i \in Range(U) : Upd(i).blocker_type # NoBlocker })
       /\ d.stuckTasks = Cardinality({ i \in Range(U) : Upd(i).status = "blocked" })
       /\ u.blockedTasks = d.stuckTasks
       /\ \A i \in Range(U) :
            (Upd(i).status = "blocked" /\ Upd(i).blocker_type # NoBlocker)
            => DashCalculateStats(<< i >>) =
                 [totalUpdates |-> 1, totalBlockers |-> 1, completedTasks |-> 0,
                  inProgressTasks |-> 0, stuckTasks |-> 1]

\* the 'blockers' tab of the manager dashboard displays a blocked update that has a
\* blocker_type and a completed one that has a blocker_type
C16_Witness ==
  /\ page = "dashboard" /\ activeTab = "blockers" /\ stats = DashCalculateStats(filteredData)
  /\ \E i \in Range(filteredData) : Upd(i).status = "blocked" /\ Upd(i).blocker_type # NoBlocker
  /\ \E i \in Range(filteredData) : Upd(i).status = "completed" /\ Upd(i).blocker_type # NoBlocker
  /\ stats.stuckTasks >= 1 /\ stats.totalBlockers >= 2

\* created_at lies in [start 00:00:00.000, end 23:59:59.999], in milliseconds
InWindow(i, range) ==
  /\ TsLE(<< range.start, 0 >>, Upd(i).created_at)
  /\ TsLE(Upd(i).created_at, << range.end, DayEndMs >>)

\* the update with id i passes the owner and team conditions of a fetch
InScope(i, teamFilter) ==
  /\ (user.role = "user" => Upd(i).employee_email = user.email)
  /\ (teamFilter # NoTeam => Upd(i).team_id = teamFilter)

\* C15: of the updates that pass the owner and team conditions, a fetch (fetchUserUpdates,
\* fetchData, fetchDataSilently) returns exactly those with created_at from start
\* 00:00:00.000 to end 23:59:59.999, both included, and the date step of the filter keeps
\* exactly the loaded updates in that window.
C15_DateBoundary ==
  [][\A c \in CallIds :
       /\ UserQuerySucceeds(c)
          => \A i \in UpdateIds :
               Upd(i).employee_email = user.email
               => (i \in Range(userUpdates') <=> InWindow(i, calls[c].cl.range))
       /\ (DashQuerySucceeds(c) /\ user.role \in allowedRoles(page))
          => \A i \in UpdateIds :
               InScope(i, FrameTeam(calls, c, calls[c].depth))
               => (i \in Range(historicalData') <=> InWindow(i, calls[c].cl.range))
       /\ (DashSilentSucceeds(c) /\ user.role \in allowedRoles(page))
          => \A i \in UpdateIds :
               InScope(i, calls[c].team)
               => (i \in Range(historicalData') <=> InWindow(i, calls[c].cl.range))
       /\ \A i \in Range(historicalData) :
            i \in Range(DashDateStep(historicalData, dateRange)) <=> InWindow(i, dateRange)]_vars

\* C17: once the page is mounted and its filter applied, the displayed stats are the
\* aggregator applied to the displayed (filtered) set: with tab 'blocked' and one blocked
\* update among the loaded ones, total = 1, blocked = 1, completed = 0, in-progress = 0.
C17_StatsOverFiltered ==
  mounted => IF page = "user-dashboard" THEN stats = UserCalculateStats(filteredUpdates)
             ELSE stats = DashCalculateStats(filteredData)

\* the outcome of tryRecoverFromLocalStorage in the current state for the key that the
\* scan of localStorage stopped at
Recovered(k) == tryRecoverFromLocalStorage(localStorage, k)

\* the explicit failure state of Dashboard (lines 1678-1699)
FailureState == loadingFailed /\ ~isLoading

\* C18: every error kind leads to the explicit failure state: after a query failure, after
\* the fetch timeout, and after a recovery that finds no cached data (from the safety
\* timeout or from the rejected refreshUser) loadingFailed is true and isLoading is false
C18_ErrorsReachFailureState ==
  [][/\ \A c \in CallIds : DashQueryFails(c) => FailureState'
     /\ \A t \in timers : DashLoadingTimeoutFires(t) => FailureState'
     /\ \A k \in FoundKeys(localStorage) :
          (DashSafetyTimeoutFires(k) /\ ~Recovered(k).ok) => FailureState'
     /\ \A k \in FoundKeys(localStorage) :
          (DashRefreshUserRejects(k) /\ ~Recovered(k).ok) => FailureState']_vars

\* C19: recovery is a fallback only: tryRecoverFromLocalStorage runs only after refreshUser
\* rejected while no user was resolved, or when the safety timeout fires while a load is
\* in progress and before data has loaded; never where a fetch succeeded and loading ended
C19_RecoveryOnlyFallback ==
  [][/\ \A k \in FoundKeys(localStorage) : DashRefreshUserRejects(k) => user = NoUser
     /\ \A k \in FoundKeys(localStorage) :
          DashSafetyTimeoutFires(k) => (isLoading /\ ~dataLoaded)]_vars

\* the updates that the stored chunk i of an e-mail holds, none when it is absent
StoredChunk(i, email) ==
  IF HasItem(localStorage, ChunkKey(i, email)) /\ getItem(localStorage, ChunkKey(i, email)).parses
  THEN getItem(localStorage, ChunkKey(i, email)).data ELSE << >>

RECURSIVE ChunksBelow(_, _)
\* the concatenation of the stored chunks 0..n-1 in index order
ChunksBelow(n, email) ==
  IF n = 0 THEN << >> ELSE ChunksBelow(n - 1, email) \o StoredChunk(n - 1, email)

\* what the chunked representation yields for an e-mail: nothing without a chunk count
ChunkedYield(email) ==
  IF HasItem(localStorage, ChunkCountKey(email))
  THEN ChunksBelow(getItem(localStorage, ChunkCountKey(email)).count, email) ELSE << >>

\* what the legacy whole-set entry yields for an e-mail
LegacyYield(email) ==
  IF HasItem(localStorage, LegacyKey(email)) /\ getItem(localStorage, LegacyKey(email)).parses
  THEN getItem(localStorage, LegacyKey(email)).data ELSE << >>

\* a step in which tryRecoverFromLocalStorage runs for the key k
RecoveryStep(k) == DashRefreshUserRejects(k) \/ DashSafetyTimeoutFires(k)

\* C20: for the resolved e-mail the recovery sets the update set to the concatenation of
\* the chunks 0..count-1 when they hold updates, whatever the legacy entry holds; it uses
\* the legacy entry only when the chunks yield nothing; when neither yields data it
\* returns false and leaves the update set unchanged
C20_ChunkedPreferred ==
  [][\A k \in FoundKeys(localStorage) :
       (RecoveryStep(k) /\ RecoveredEmail(localStorage, k) # "") =>
         LET email == RecoveredEmail(localStorage, k)
         IN /\ ChunkedYield(email) # << >> =>
                 (Recovered(k).ok /\ historicalData' = ChunkedYield(email))
            /\ (ChunkedYield(email) = << >> /\ LegacyYield(email) # << >>) =>
                 (Recovered(k).ok /\ historicalData' = LegacyYield(email))
            /\ (ChunkedYield(email) = << >> /\ LegacyYield(email) = << >>) =>
                 (~Recovered(k).ok /\ historicalData' = historicalData)]_vars

\* the keys that tryRecoverFromLocalStorage reads (lines 917, 940, 949, 969)
IsRecoveryKey(k) == k = UserCacheKey \/ (Len(k) >= 2 /\ k[1] = "dashboard" /\ k[2] = "historicalData")

\* the entries of a store under the keys that the recovery reads
RecoveryEntries(ls) == { e \in ls : IsRecoveryKey(e.key) }

\* C21: the recovery cache is never a primary store: no step writes an entry under a key
\* that the recovery reads, and a successful live fetch, also after a recovery has
\* populated the update set, sets the update set to the response of the store
C21_CacheNeverPrimary ==
  [][/\ RecoveryEntries(localStorage') = RecoveryEntries(localStorage)
     /\ \A c \in CallIds :
          DashQuerySucceeds(c) =>
            historicalData' = RunQuery(DashQuery(calls[c].cl.range,
                                                 FrameTeam(calls, c, calls[c].depth)))
     /\ \A c \in CallIds :
          DashSilentSucceeds(c) =>
            historicalData' = RunQuery(DashQuery(calls[c].cl.range, calls[c].team))]_vars

\* the recovery has populated the update set from the legacy entry, the store has been
\* written by the teams effect, and a live fetch is waiting for its answer
C21_Witness ==
  /\ dataLoaded /\ historicalData = << 2, 6 >>
  /\ HasItem(localStorage, TeamsKey(CachedEmail))
  /\ \E c \in CallIds : calls[c].pc = "query"

\* the view of the row at index idx is on screen: the list row always, the detail when expanded
OnScreen(view, idx) == view = "list" \/ RowKey(idx) \in expandedRows

\* C22: blocker_description and expected_resolution_date of a displayed update are shown
\* only in the block rendered when blocker_type is present; for an update without
\* blocker_type no view shows either field, whatever the fields hold
C22_DependentBlockerFields ==
  \A idx \in 1..Len(RowsShown) : \A view \in {"list", "detail"} :
    (OnScreen(view, idx) /\ Upd(RowsShown[idx]).blocker_type = NoBlocker) =>
      \A t \in BlockerTextsShown(view, RowsShown[idx]) :
        t[1] \notin {"blocker_description", "expected_resolution_date"}

\* Dashboard shows the expanded detail of an update without blocker_type whose
\* blocker_description and expected_resolution_date are both set
C22_Witness ==
  /\ page = "dashboard"
  /\ \E idx \in 1..Len(RowsShown) :
       /\ RowKey(idx) \in expandedRows
       /\ Upd(RowsShown[idx]).blocker_type = NoBlocker
       /\ Upd(RowsShown[idx]).blocker_description # ""
       /\ Upd(RowsShown[idx]).expected_resolution_date # ""

\* the table of the page is rendered
TableShown ==
  /\ mounted /\ user.role \in allowedRoles(page) /\ ~isLoading
  /\ page = "dashboard" => ~loadingFailed

\* the update with id i satisfies the active filter of the page
MatchesActiveFilter(i) ==
  IF page = "user-dashboard" THEN TabKeeps(i, activeFilter)
  ELSE /\ InWindow(i, dateRange)
       /\ selectedTeam # NoTeam => Upd(i).team_id = selectedTeam
       /\ TabKeeps(i, activeTab)

\* the in-memory update set of the page
UpdateSet == IF page = "user-dashboard" THEN userUpdates ELSE historicalData

\* C23: in every state where no fetch is in flight and no timer or effect is pending, the
\* displayed rows are exactly the members of the in-memory update set that satisfy the
\* active filter, after any sequence of card clicks, tab changes and fetch completions
C23_RowsMatchFilter ==
  (Quiescent /\ TableShown) => RowsShown = SelectSeq(UpdateSet, MatchesActiveFilter)

\* the response of the store to fetchUserUpdates over a date range
UserResponse(range) == OrderDesc(RunQuery(UserQuery(range)))

\* C24: there is no sequencing guard on fetch completion: each successful completion
\* overwrites the in-memory update set with the response to its own parameters, whatever
\* the current filters are and whatever other fetch is in flight, so a fetch issued
\* earlier that completes last leaves the older response in the update set
C24_NoSequencingGuard ==
  [][/\ \A c \in CallIds :
          UserQuerySucceeds(c) => userUpdates' = UserResponse(calls[c].cl.range)
     /\ \A c \in CallIds :
          DashQuerySucceeds(c) =>
            historicalData' = RunQuery(DashQuery(calls[c].cl.range,
                                                 FrameTeam(calls, c, calls[c].depth)))]_vars

\* two fetches of UserDashboard have succeeded, nothing is in flight, and the update set
\* holds the response to the initial date range, which is not the response to the current one
C24_Witness ==
  /\ page = "user-dashboard"
  /\ \A c \in CallIds : calls[c].pc = "done" /\ calls[c].outcome = "success"
  /\ dateRange # [start |-> Today - UserWindow, end |-> Today]
  /\ userUpdates = UserResponse([start |-> Today - UserWindow, end |-> Today])
  /\ userUpdates # UserResponse(dateRange)

\* a step that is a successful fetch completion or a successful recovery from the cache
WriterStep ==
  \/ \E c \in CallIds : UserQuerySucceeds(c) \/ DashQuerySucceeds(c) \/ DashSilentSucceeds(c)
  \/ \E k \in FoundKeys(localStorage) : RecoveryStep(k) /\ Recovered(k).ok

\* C25: single writer discipline: the in-memory update set (userUpdates / historicalData)
\* changes only in a step that is a successful fetch completion or a successful recovery;
\* a failed fetch, a timeout, a filter change, Clear Cache, edit success and a click on
\* refresh leave it unchanged
C25_SingleWriter ==
  [][(userUpdates' # userUpdates \/ historicalData' # historicalData) => WriterStep]_vars

\* the e-mail of the cached identity record, "" when there is none
CachedIdentity ==
  IF HasItem(localStorage, UserCacheKey) /\ getItem(localStorage, UserCacheKey).parses
  THEN getItem(localStorage, UserCacheKey).email ELSE ""

\* the e-mail that a key dashboard_<name>_<email> was written for
OwnerOfKey(k) == k[Len(k)]

\* C26: when the recovery runs, the identity it resolves is the e-mail of the cached
\* identity record if there is one; otherwise, from a key dashboard_<name>_<email> of the
\* store, it is <email>, so that the chunks stored for that e-mail are recovered
C26_IdentityLookup ==
  [][\A k \in FoundKeys(localStorage) :
       RecoveryStep(k) =>
         /\ CachedIdentity # "" => RecoveredEmail(localStorage, k) = CachedIdentity
         /\ (CachedIdentity = "" /\ k # << >>) =>
              /\ RecoveredEmail(localStorage, k) = OwnerOfKey(k)
              /\ ChunkedYield(OwnerOfKey(k)) # << >> =>
                   historicalData' = ChunkedYield(OwnerOfKey(k))]_vars

\* the maximum-wait timers that are pending
LoadingTimers(tm) == { t \in tm : t.kind = "loading" }

\* C27: when an interactive fetch completes, by success or by failure, the maximum-wait
\* timer that this fetch armed is cleared in the same step, so it cannot fire afterwards,
\* and at most one such timer is pending at any time (for a user whose role the page admits)
C27_TimerCancelled ==
  [][user.role \in allowedRoles(page) =>
       /\ \A c \in CallIds :
            ((UserQuerySucceeds(c) \/ UserQueryFails(c)) /\ calls'[c].pc = "done") =>
              \A t \in LoadingTimers(timers') : t.id[1] # c
       /\ \A c \in CallIds :
            (DashQuerySucceeds(c) \/ DashQueryFails(c)) =>
              LoadingTimer(<< c, calls[c].depth >>) \notin timers'
       /\ Cardinality(LoadingTimers(timers')) <= 1]_vars

\* C28: an invocation of fetchData or fetchTeamsBasedOnRole issues a bounded number of
\* queries when every query is answered: once its teams query has been answered with rows
\* it goes on to the query of the updates and issues no further teams query, that is
\* fetchData and fetchTeamsBasedOnRole do not invoke each other again
C28_LoadTerminates ==
  [][\A c \in CallIds : DashTeamsSucceeds(c) => calls'[c].pc # "teams"]_vars

\* the fetch awaited by refreshData returns in this step of call c, having failed
RefreshFetchFailed(c) ==
  /\ calls[c].by = "refresh"
  /\ \/ UserQueryFails(c) /\ calls'[c].pc = "done"
     \/ DashQueryFails(c) /\ calls'[c] = NoCall

\* the fetch awaited by refreshData returns in this step of call c, having succeeded
RefreshFetchSucceeded(c) ==
  /\ calls[c].by = "refresh"
  /\ \/ UserQuerySucceeds(c)
     \/ DashQuerySucceeds(c) /\ calls'[c] = NoCall

\* C29: manual refresh reports the true outcome: when the fetch it awaited failed,
\* refreshData surfaces a failure and no success notification; when it succeeded it shows
\* 'Data refreshed successfully'; in both cases isRefreshing is false afterwards
C29_RefreshOutcome ==
  [][\A c \in CallIds :
       /\ RefreshFetchFailed(c) =>
            /\ RefreshNotice \notin toasts' \ toasts
            /\ \E t \in toasts' : t[1] = "failed"
            /\ ~isRefreshing'
       /\ RefreshFetchSucceeded(c) => (RefreshNotice \in toasts' /\ ~isRefreshing')]_vars

\* C30: session recovery is attempted at most once: refreshUser is called (recoveryInProgress
\* goes up) only with no resolved user, no load and no other recovery in progress and no
\* earlier attempt; sessionRecoveryAttempted is never reset; and recoveryInProgress is false
\* after refreshUser has resolved or rejected
C30_RecoveryOnce ==
  [][/\ (recoveryInProgress' /\ ~recoveryInProgress) =>
          (user = NoUser /\ ~isLoading /\ ~sessionRecoveryAttempted /\ sessionRecoveryAttempted')
     /\ sessionRecoveryAttempted => sessionRecoveryAttempted'
     /\ \A u \in SessionUsers : DashRefreshUserResolves(u) => ~recoveryInProgress'
     /\ \A k \in FoundKeys(localStorage) : DashRefreshUserRejects(k) => ~recoveryInProgress']_vars

\* refreshUser rejected, the recovery filled the update set, and no second attempt is pending
C30_Witness ==
  /\ page = "dashboard" /\ mounted /\ user = NoUser
  /\ sessionRecoveryAttempted /\ ~recoveryInProgress
  /\ dataLoaded /\ historicalData # << >>

====
